---- MODULE Spec2Model ----
(***************************************************************************)
(* State-machine model of the swap-driven reward controller                *)
(* (scripts/controller/reward_controller_amm_swaps.js), of the legacy      *)
(* transfer-driven gate it contains, of the range fetcher of               *)
(* reward_controller_balance_based.js and of the JSTVIP reward ledger      *)
(* (contracts/JSTVIP.sol).                                                 *)
(*                                                                         *)
(* An async function is a process: a pass sits at the await it is waiting  *)
(* on (its pc) and one action runs it from the resumption of that await to *)
(* the next await that really yields, as the JavaScript event loop does.   *)
(***************************************************************************)
EXTENDS Integers, Sequences, FiniteSets, Bags, TLC

(* ------------------------------ bounds -------------------------------- *)

MaxHeight == 5          \* the chain grows up to this height
MaxTime == 3            \* Date.now() advances up to this tick
MaxPasses == 2          \* backfill passes that may be in flight together
MaxCrashes == 1         \* process crashes / channel losses explored
MaxFolds == 2           \* swap events folded one after another on their own
MaxCalls == 2           \* calls of cohortBucket made one after another
MaxTx == 5              \* transactions sent to a contract on its own
MaxEdits == 4           \* writes to the state object and loads of the file, on their own
MaxRateLimits == 1      \* rate-limit rejections within one call of a fetcher
MaxRetries == 2         \* repetitions of a chunk after which a mint may still fail, under the strict policy

(* ---------------------- configuration (env vars) ---------------------- *)

confirmations == 2
chunkSize == 2
minBackfillIntervalMs == 1
mintFailureCooldownMs == 2
DefaultEligiblePercent == 50    \* COHORT_ELIGIBLE_PERCENT when unset
threshold == 1000
initWindow == 2000

(* ----------------------------- addresses ------------------------------ *)

ZeroAddress == "0x000"
AddrA == "0xAAA"
AddrB == "0xBBB"
AddrC == "0xCcC"

\* String(a).toLowerCase()
toLowerAddr(a) ==
  CASE a = "0xAAA" -> "0xaaa"
    [] a = "0xBBB" -> "0xbbb"
    [] a = "0xCcC" -> "0xccc"
    [] a = "0xCCC" -> "0xccc"
    [] a = "0xUSD" -> "0xusd"
    [] a = "0xTOK" -> "0xtok"
    [] OTHER -> a

\* ethers.isAddress: a decoded log argument is a well-formed address
isAddress(a) == toLowerAddr(a) \in {"0x000", "0xaaa", "0xbbb", "0xccc"}

Wallets == {"0x000", "0xaaa", "0xbbb", "0xccc"}

(* --------------------------- small helpers ---------------------------- *)

Min(a, b) == IF a < b THEN a ELSE b
Max(a, b) == IF a > b THEN a ELSE b

\* BigInt.prototype.toString / String(number): decimal digits, most significant first
RECURSIVE DecStr(_)
DecStr(n) == IF n < 10 THEN <<n>> ELSE Append(DecStr(n \div 10), n % 10)

RECURSIVE ParseDec(_)
ParseDec(s) ==
  IF s = <<>> THEN 0
  ELSE ParseDec(SubSeq(s, 1, Len(s) - 1)) * 10 + s[Len(s)]

\* parseBigintSafe applied to `entry || "0"`; NoEntry is a missing key
NoEntry == <<>>
parseBigintSafe(x) == IF x = NoEntry THEN 0 ELSE ParseDec(x)

\* obj[k] of a JSON object map (undefined -> NoEntry)
Get(m, k) == IF k \in DOMAIN m THEN m[k] ELSE NoEntry
\* obj[k] = v
Put(m, k, v) == [x \in DOMAIN m \cup {k} |-> IF x = k THEN v ELSE m[x]]
\* delete obj[k]
Del(m, k) == [x \in DOMAIN m \ {k} |-> m[x]]
EmptyMap == [x \in {} |-> NoEntry]

(* ------------------------------- cohort ------------------------------- *)

\* A JavaScript string is the sequence of its characters.
\* ethers.keccak256(ethers.toUtf8Bytes(`${address}:${salt}`)): "0x" and
\* lower-case hex digits; the digest is tabulated, and cut after 5 bytes,
\* for the inputs of the model
keccak256(input) ==
  CASE input = <<"0xaaa", "salt">> -> <<"0", "x", "4", "7", "8", "6", "8", "c", "0", "a", "3", "e">>
    [] input = <<"0xbbb", "salt">> -> <<"0", "x", "4", "d", "7", "c", "6", "d", "5", "a", "9", "1">>
    [] input = <<"0xccc", "salt">> -> <<"0", "x", "0", "4", "9", "6", "e", "d", "7", "1", "c", "4">>
    [] input = <<"0x000", "salt">> -> <<"0", "x", "7", "7", "3", "5", "9", "4", "4", "b", "0", "7">>
    [] input = <<"0xaaa", "pepper">> -> <<"0", "x", "1", "f", "3", "a", "9", "c", "4", "7", "d", "2">>
    [] input = <<"0xbbb", "pepper">> -> <<"0", "x", "5", "b", "0", "e", "2", "2", "d", "1", "0", "0">>
    [] OTHER -> <<"0", "x", "7", "e", "5", "7", "a", "b", "1", "e", "5", "5">>

\* String.prototype.slice(a, b) for 0 <= a <= b
slice(s, a, b) == SubSeq(s, a + 1, Min(b, Len(s)))

HexDigits ==
  [c \in {"0", "1", "2", "3", "4", "5", "6", "7", "8", "9", "a", "b", "c", "d", "e", "f"} |->
     CASE c = "0" -> 0 [] c = "1" -> 1 [] c = "2" -> 2 [] c = "3" -> 3
       [] c = "4" -> 4 [] c = "5" -> 5 [] c = "6" -> 6 [] c = "7" -> 7
       [] c = "8" -> 8 [] c = "9" -> 9 [] c = "a" -> 10 [] c = "b" -> 11
       [] c = "c" -> 12 [] c = "d" -> 13 [] c = "e" -> 14 [] c = "f" -> 15]

\* the digits of s up to the first character that is not a hex digit
RECURSIVE hexPrefix(_)
hexPrefix(s) ==
  IF s = <<>> \/ s[1] \notin DOMAIN HexDigits THEN <<>>
  ELSE <<s[1]>> \o hexPrefix(Tail(s))

RECURSIVE hexValue(_)
hexValue(ds) ==
  IF ds = <<>> THEN 0
  ELSE hexValue(SubSeq(ds, 1, Len(ds) - 1)) * 16 + HexDigits[ds[Len(ds)]]

\* parseInt yields NaN when no digit can be read; NaN % 100 is NaN
NaN == 0 - 1
Rem(n, d) == IF n = NaN THEN NaN ELSE n % d

\* a parseInt that does not know the "0x" prefix
parseInt16Plain(s) ==
  IF hexPrefix(s) = <<>> THEN NaN ELSE hexValue(hexPrefix(s))

\* parseInt(s, 16): an optional "0x" is skipped, then the longest run of
\* hex digits is read
parseInt16(s) ==
  LET body == IF Len(s) >= 2 /\ s[1] = "0" /\ s[2] \in {"x", "X"}
              THEN SubSeq(s, 3, Len(s)) ELSE s
  IN IF hexPrefix(body) = <<>> THEN NaN ELSE hexValue(hexPrefix(body))

\* reward_controller_amm_swaps.js lines 216-220: h.slice(2, 10)
cohortBucket(address, salt) ==
  Rem(parseInt16(slice(keccak256(<<toLowerAddr(address), salt>>), 2, 10)), 100)

\* reward_controller_balance_based.js lines 82-90: h.slice(0, 10)
cohortBucketBalanceBased(address, salt) ==
  Rem(parseInt16(slice(keccak256(<<toLowerAddr(address), salt>>), 0, 10)), 100)

\* a gate that lets every address through
isInEligibleCohortEveryone(address, enabled, pct, salt) == TRUE

\* lines 222-228; the throw of line 224 is not reachable from main(), which
\* has rejected an empty salt with gating enabled at lines 318-320

isInEligibleCohort(address, enabled, pct, salt) ==
  IF ~enabled THEN TRUE
  ELSE IF pct <= 0 THEN FALSE
  ELSE IF pct >= 100 THEN TRUE
  ELSE cohortBucket(address, salt) < pct

(* ------------------------------ the chain ----------------------------- *)

\* The pool's Swap events, in on-chain order (block, log index).  The
\* tracked token is the pool's token1: amount1 < 0 is a purchase.
ChainLog ==
  << [block |-> 1, logIndex |-> 0, sender |-> "0xCcC", recipient |-> "0xAAA", amount0 |-> 6, amount1 |-> 0 - 600],
     [block |-> 1, logIndex |-> 1, sender |-> "0xAAA", recipient |-> "0xCcC", amount0 |-> 0 - 3, amount1 |-> 300],
     [block |-> 2, logIndex |-> 0, sender |-> "0xCcC", recipient |-> "0xAAA", amount0 |-> 5, amount1 |-> 0 - 500],
     [block |-> 2, logIndex |-> 1, sender |-> "0xAAA", recipient |-> "0xBBB", amount0 |-> 10, amount1 |-> 0 - 1000],
     [block |-> 3, logIndex |-> 0, sender |-> "0xBBB", recipient |-> "0xAAA", amount0 |-> 1, amount1 |-> 0 - 100],
     [block |-> 3, logIndex |-> 1, sender |-> "0xAAA", recipient |-> "0xCcC", amount0 |-> 10, amount1 |-> 0 - 1000] >>

EventKeys == 1..Len(ChainLog)

\* pool.queryFilter(filter, lo, hi) when the provider answers
RECURSIVE KeysIn(_, _, _)
KeysIn(lo, hi, k) ==
  IF k > Len(ChainLog) THEN <<>>
  ELSE IF ChainLog[k].block >= lo /\ ChainLog[k].block <= hi
       THEN <<k>> \o KeysIn(lo, hi, k + 1)
       ELSE KeysIn(lo, hi, k + 1)

queryFilter(lo, hi) == KeysIn(lo, hi, 1)

(* ------------------------------ variables ----------------------------- *)

VARIABLES
  height,               \* current height of the chain (provider.getBlockNumber)
  now,                  \* Date.now()
  phase,                \* "down" | "startup" | "listening" | "exited": the controller process
  state,                \* the in-memory `state` object of main()
  file,                 \* the contents of STATE_FILE, or NoFile
  lastRun,              \* `lastRun` of the block handler
  pass,                 \* the bag of backfillSwaps activations in flight
  nft,                  \* the JSTVIP contract: _nextTokenId, hasMinted, owners
  throwOnMintFailure,   \* THROW_ON_MINT_FAILURE, read once at startup
  env,                  \* POOL_TOKEN0, POOL_TOKEN1, TOKEN_ADDRESS, COHORT_SALT of process.env
  ws,                   \* wsProvider.websocket of the running process: "open" | "closed"
  legacyMintEnabled,    \* LEGACY_BALANCE_MINT_ENABLED, read once at startup
  cohortEnabled,        \* COHORT_ENABLED, read once at startup
  cohortEligiblePercent, \* COHORT_ELIGIBLE_PERCENT, read once at startup
  sqliteDb,             \* the analytic index: opened or not, and its rows
  crashes,              \* process crashes so far
  probe                 \* input and result of a function applied on its own

vars == <<height, now, phase, state, file, lastRun, pass, nft,
          throwOnMintFailure, env, ws, legacyMintEnabled, cohortEnabled, cohortEligiblePercent, sqliteDb, crashes, probe>>

\* no function is applied on its own in the controller specifications
NoProbe == <<>>

\* lines 275-276: what the deployed pool answers to token0() and token1(),
\* lower-cased
onchainToken0 == "0xusd"
onchainToken1 == "0xtok"

\* the environment of a controller set up for this pool and its token1
DefaultEnv ==
  [ POOL_TOKEN0 |-> "0xUSD", POOL_TOKEN1 |-> "0xTOK",
    TOKEN_ADDRESS |-> "0xTOK", COHORT_SALT |-> "salt", SWAP_MINT_ENABLED |-> "" ]

\* envBool (lines 55-59), on the variable's value trimmed and lower-cased
envBool(raw, def) ==
  IF raw = "" THEN def ELSE raw \in {"true", "1", "yes", "y"}

\* line 239
swapMintEnabled == envBool(env.SWAP_MINT_ENABLED, TRUE)

\* line 255: COHORT_SALT, trimmed
cohortSalt == env.COHORT_SALT

\* lines 289-291
trackedToken == toLowerAddr(env.TOKEN_ADDRESS)
tokenIs0 == trackedToken = onchainToken0
tokenIs1 == trackedToken = onchainToken1

\* openSqlite (lines 134-184): null when CONTROLLER_SQLITE_PATH is unset,
\* else the database with its three tables, each the sequence of its rows
\* in insertion order.  `again` is a ghost field: the keys of the rows that
\* were inserted while a row with their key was in the table
NoDb == [open |-> FALSE, swaps |-> <<>>, transfers |-> <<>>, mints |-> <<>>, again |-> {}]
EmptyDb == [open |-> TRUE, swaps |-> <<>>, transfers |-> <<>>, mints |-> <<>>, again |-> {}]

\* the state file holds one JSON document, or does not exist
NoFile == <<>>

\* the object loadState returns when the file is missing or unparseable;
\* `folds` is a ghost field: how often each swap event was added into
\* cumulativeBuys of this copy of the state.  `skips` is a ghost field: for
\* every return of a gate that passed a wallet over as already minted, the
\* gate and whether nft.hasMinted was read in that evaluation
EmptyState ==
  [ lastProcessedTransferBlock |-> 0,
    lastProcessedSwapBlock |-> 0,
    cumulativeBuys |-> EmptyMap,
    mintedCache |-> EmptyMap,
    mintFailures |-> EmptyMap,
    folds |-> [k \in EventKeys |-> 0],
    skips |-> {} ]

loadState(f) == IF f = NoFile THEN EmptyState ELSE f[1]

saveState(s) == <<s>>

\* the locals of one activation of backfillSwaps: the await it waits on,
\* target, from, to, the `end` of querySwapLogs, the logs of the chunk and
\* the position of the for-loop in them
NewPass ==
  [ pc |-> "getBlock", target |-> 0, from |-> 0, to |-> 0, end |-> 0,
    logs |-> <<>>, pos |-> 0 ]

\* the locals of one activation of backfillTransfers, which backfillSwaps
\* follows (lines 630, 641 and 652-653)
NewTransferPass == [NewPass EXCEPT !.pc = "transfers.getBlock"]

\* what the process calls first at startup and in the block handler
FirstBackfill == IF legacyMintEnabled THEN NewTransferPass ELSE NewPass

Passes == BagToSet(pass)
InFlight == BagCardinality(pass)
NoPass == EmptyBag
Replace(p, q) == (pass (-) SetToBag({p})) (+) SetToBag({q})
Remove(p) == pass (-) SetToBag({p})

(* ------------------------- the JSTVIP contract ------------------------ *)

NftInit ==
  [ nextTokenId |-> 1,
    hasMinted |-> [w \in Wallets |-> FALSE],
    owners |-> <<>> ]

\* mint() without the require(!hasMinted[to])
mintRevertsNoGuard(c, to) == to = "0x000"

\* require(to != address(0)); require(!hasMinted[to])   (the caller is the minter)
mintReverts(c, to) == to = "0x000" \/ c.hasMinted[to]

\* the body of mint(to) after the requires; owners[tokenId] = to
mintEffect(c, to) ==
  [ nextTokenId |-> c.nextTokenId + 1,
    hasMinted |-> [c.hasMinted EXCEPT ![to] = TRUE],
    owners |-> Append(c.owners, to) ]

(* ------------------------ swap attribution ---------------------------- *)

\* a reading that takes the magnitude of the delta whatever its sign
tokenBoughtMagnitude(is0, amount0, amount1) ==
  IF is0
  THEN (IF amount0 < 0 THEN 0 - amount0 ELSE amount0)
  ELSE (IF amount1 < 0 THEN 0 - amount1 ELSE amount1)

\* lines 448-460, for a controller whose tokenIs0 is is0
tokenBoughtFor(is0, amount0, amount1) ==
  IF is0
  THEN (IF amount0 < 0 THEN 0 - amount0 ELSE 0)
  ELSE (IF amount1 < 0 THEN 0 - amount1 ELSE 0)

getTokenBoughtFromSwap(amount0, amount1) == tokenBoughtFor(tokenIs0, amount0, amount1)

\* lines 590-595 on the cumulativeBuys map alone
foldBuy(cumulativeBuys, is0, log) ==
  LET tokenBought == tokenBoughtFor(is0, log.amount0, log.amount1)
      buyerL == toLowerAddr(log.recipient)
      prev == parseBigintSafe(Get(cumulativeBuys, buyerL))
  IN IF tokenBought > 0
     THEN Put(cumulativeBuys, buyerL, DecStr(prev + tokenBought))
     ELSE cumulativeBuys

\* an accumulation placed behind the cohort check of the gate
accumulateEligible(s, k) ==
  LET log == ChainLog[k]
      tokenBought == getTokenBoughtFromSwap(log.amount0, log.amount1)
  IN IF tokenBought > 0
        /\ isInEligibleCohort(log.recipient, cohortEnabled, cohortEligiblePercent, cohortSalt)
     THEN [s EXCEPT !.cumulativeBuys = foldBuy(@, tokenIs0, log),
                    !.folds[k] = @ + 1]
     ELSE s

\* lines 591-595: cumulativeBuys[buyerL] = (prev + tokenBought).toString()
accumulate(s, k) ==
  LET log == ChainLog[k]
      tokenBought == getTokenBoughtFromSwap(log.amount0, log.amount1)
  IN IF tokenBought > 0
     THEN [s EXCEPT !.cumulativeBuys = foldBuy(@, tokenIs0, log),
                    !.folds[k] = @ + 1]
     ELSE s

(* ------------------------------ mint gate ----------------------------- *)

\* a gate returned because the wallet is already minted
skipped(s, gate, read) == [s EXCEPT !.skips = @ \cup {[gate |-> gate, read |-> read]}]

\* line 473: the recorded failure time of the buyer, 0 when there is none
lastFailOf(s, buyerL) ==
  IF buyerL \in DOMAIN s.mintFailures THEN ParseDec(s.mintFailures[buyerL]) ELSE 0

\* the cooldown test with <= for <
inCooldownInclusive(lastFailMs, nowMs) ==
  lastFailMs # 0 /\ nowMs - lastFailMs <= mintFailureCooldownMs

\* line 474
inCooldown(lastFailMs, nowMs) ==
  lastFailMs # 0 /\ nowMs - lastFailMs < mintFailureCooldownMs

cached(s, buyerL) == buyerL \in DOMAIN s.mintedCache /\ s.mintedCache[buyerL] = TRUE

\* a threshold check that lets every volume pass
belowThresholdNever(cum) == FALSE

\* line 499
belowThreshold(cum) == cum < threshold

\* lines 463-480: the synchronous head of maybeMintFromCumulativeBuys, up to
\* its first await: "return", or the await the evaluation stops at
gateEntry(s, buyer, t) ==
  IF ~swapMintEnabled THEN "return"
  ELSE IF ~isAddress(buyer) \/ buyer = ZeroAddress THEN "return"
  ELSE IF ~isInEligibleCohort(buyer, cohortEnabled, cohortEligiblePercent, cohortSalt) THEN "return"
  ELSE IF inCooldown(lastFailOf(s, toLowerAddr(buyer)), t) THEN "return"
  ELSE IF cached(s, toLowerAddr(buyer)) THEN "hasMintedCache"
  ELSE "hasMinted"

(* --------------------------- backfillSwaps ---------------------------- *)

\* a step of a pass yields: the state object, the state file, the pass at
\* its next await, and whether backfillSwaps is still running ("await"),
\* has returned ("done") or has thrown ("thrown")
Yield(s, f, p, out) == [s |-> s, f |-> f, p |-> p, out |-> out]

\* a chunk end that keeps the new cursor in memory and leaves the file alone
chunkEndUnsaved(s, f, p) ==
  LET s1 == [s EXCEPT !.lastProcessedSwapBlock = p.to]
      from == p.to + 1
      to == Min(from + chunkSize - 1, p.target)
  IN IF from <= p.target
     THEN Yield(s1, f,
                [p EXCEPT !.pc = "query", !.from = from, !.to = to, !.end = to,
                          !.logs = <<>>, !.pos = 0], "await")
     ELSE Yield(s1, f, p, "done")

\* lines 622-624 and the loop head 565-567: the chunk is finished, the
\* cursor is written, and the next chunk (if any) is requested
chunkEnd(s, f, p) ==
  LET s1 == [s EXCEPT !.lastProcessedSwapBlock = p.to]
      from == p.to + 1
      to == Min(from + chunkSize - 1, p.target)
  IN IF from <= p.target
     THEN Yield(s1, saveState(s1),
                [p EXCEPT !.pc = "query", !.from = from, !.to = to, !.end = to,
                          !.logs = <<>>, !.pos = 0], "await")
     ELSE Yield(s1, saveState(s1), p, "done")

\* lines 569-620: the for-loop over the logs of a chunk, run from the log
\* at p.pos until an await of the gate yields or the chunk ends
RECURSIVE foldLoop(_, _, _, _)
foldLoop(s, f, p, t) ==
  IF p.pos > Len(p.logs) THEN chunkEnd(s, f, p)
  ELSE
    LET k == p.logs[p.pos]
        log == ChainLog[k]
        tokenBought == getTokenBoughtFromSwap(log.amount0, log.amount1)
        s1 == accumulate(s, k)
        g == gateEntry(s1, log.recipient, t)
    IN IF tokenBought > 0 /\ g # "return"
       THEN Yield(s1, f, [p EXCEPT !.pc = g], "await")
       ELSE IF sqliteDb.open
       THEN Yield(s1, f, [p EXCEPT !.pc = "insertSwap"], "await")
       ELSE foldLoop(s1, f, [p EXCEPT !.pos = @ + 1], t)

\* lines 601-619: the evaluation of the log at p.pos returned; dbRun awaits
\* the insert into controller_swaps when the index is open and resolves at
\* once when it is not, then the loop goes on with the next log
nextLog(s, f, p, t) ==
  IF sqliteDb.open
  THEN Yield(s, f, [p EXCEPT !.pc = "insertSwap"], "await")
  ELSE foldLoop(s, f, [p EXCEPT !.pos = @ + 1], t)

\* the recipient of the log the pass is evaluating
buyerOf(p) == ChainLog[p.logs[p.pos]].recipient

\* The pass p continues with the yield r.  The startup pass runs inside
\* main() (line 641): when it returns the block handler is registered,
\* when it throws main().catch exits the process (lines 665-668).  A pass
\* started by the block handler ends in the handler's try/catch.
Continue(p, r) ==
  IF r.out = "await"
  THEN /\ pass' = Replace(p, r.p)
       /\ state' = r.s
       /\ file' = r.f
       /\ UNCHANGED <<phase, lastRun>>
  ELSE IF phase = "startup" /\ r.out = "thrown"
  THEN /\ pass' = NoPass
       /\ state' = EmptyState
       /\ file' = r.f
       /\ phase' = "down"
       /\ lastRun' = 0
  ELSE /\ pass' = Remove(p)
       /\ state' = r.s
       /\ file' = r.f
       /\ phase' = "listening"
       /\ lastRun' = lastRun

(* ------------------------------- actions ------------------------------ *)

Init ==
  /\ height = 0
  /\ now = 1
  /\ phase = "down"
  /\ state = EmptyState
  /\ file = NoFile
  /\ lastRun = 0
  /\ pass = NoPass
  /\ nft = NftInit
  /\ throwOnMintFailure \in BOOLEAN
  /\ env = DefaultEnv
  /\ ws = "open"
  /\ legacyMintEnabled = FALSE
  /\ cohortEnabled = TRUE
  /\ cohortEligiblePercent = DefaultEligiblePercent
  /\ sqliteDb = NoDb
  /\ crashes = 0
  /\ probe = NoProbe

\* a startup that starts every run from the initialisation window
initCursorFresh(cursor, latest) == Max(0, latest - initWindow)

\* lines 326-333: a cursor that loadState read as 0 (absent, or not a
\* number) or that is not positive becomes the start of the
\* initialisation window; any other cursor is kept
initCursor(cursor, latest) ==
  LET initFrom == Max(0, latest - initWindow)
  IN IF cursor = 0 \/ cursor <= 0 THEN initFrom ELSE cursor

\* a startup that checks the pool and the token but never the salt
configErrorSaltUnchecked ==
  \/ onchainToken0 # toLowerAddr(env.POOL_TOKEN0)
  \/ onchainToken1 # toLowerAddr(env.POOL_TOKEN1)
  \/ ~tokenIs0 /\ ~tokenIs1

\* lines 277-299 and 318-320: main() throws on a pool whose tokens are not
\* the configured pair, on a tracked token that is neither of them, and on
\* cohort gating without a salt
configError ==
  \/ onchainToken0 # toLowerAddr(env.POOL_TOKEN0)
  \/ onchainToken1 # toLowerAddr(env.POOL_TOKEN1)
  \/ ~tokenIs0 /\ ~tokenIs1
  \/ cohortEnabled /\ cohortSalt = ""

\* main() lines 265, 273-299, 318-334 and 630-641: the websocket provider is
\* constructed.  The pool answers token0() and
\* token1(), so it is deployed.  On a configuration error main() throws and
\* main().catch exits the process (lines 665-668); a restart would meet the
\* same environment, so the process stays exited.  Otherwise the state is
\* loaded, the cursors are initialised and saved, and the first backfill is
\* called, which awaits getBlockNumber
Start ==
  /\ phase = "down"
  /\ height >= ChainLog[1].block
  /\ IF configError
     THEN /\ phase' = "exited"
          /\ UNCHANGED <<state, file, pass, lastRun>>
     ELSE /\ LET s0 == loadState(file)
                 latest == height
                 s1 == [s0 EXCEPT !.lastProcessedTransferBlock = initCursor(@, latest)]
                 s2 == [s1 EXCEPT !.lastProcessedSwapBlock = initCursor(@, latest)]
             IN /\ state' = s2
                /\ file' = saveState(s2)
          /\ phase' = "startup"
          /\ pass' = SetToBag({FirstBackfill})
          /\ lastRun' = 0
  /\ ws' = "open"
  /\ UNCHANGED <<height, now, nft, throwOnMintFailure, env, legacyMintEnabled, cohortEnabled, cohortEligiblePercent, sqliteDb, crashes, probe>>

\* the process dies (kill, power loss, or the exit of lines 661-662)
Crash ==
  /\ phase \in {"startup", "listening"}
  /\ crashes < MaxCrashes
  /\ crashes' = crashes + 1
  /\ phase' = "down"
  /\ state' = EmptyState
  /\ pass' = NoPass
  /\ lastRun' = 0
  /\ UNCHANGED <<height, now, file, nft, throwOnMintFailure, env, ws, legacyMintEnabled, cohortEnabled, cohortEligiblePercent, sqliteDb, probe>>

Tick ==
  /\ now < MaxTime
  /\ now' = now + 1
  /\ UNCHANGED <<height, phase, state, file, lastRun, pass, nft,
                 throwOnMintFailure, env, ws, legacyMintEnabled, cohortEnabled, cohortEligiblePercent, sqliteDb, crashes, probe>>

\* a new head while no block handler is registered, or none can be reached
NewBlockUnheard ==
  /\ phase # "listening" \/ ws = "closed"
  /\ height < MaxHeight
  /\ height' = height + 1
  /\ UNCHANGED <<now, phase, state, file, lastRun, pass, nft,
                 throwOnMintFailure, env, ws, legacyMintEnabled, cohortEnabled, cohortEligiblePercent, sqliteDb, crashes, probe>>

\* lines 646-648: a block notification inside the minimum interval is dropped
OnBlockThrottled ==
  /\ phase = "listening"
  /\ ws = "open"
  /\ height < MaxHeight
  /\ now - lastRun < minBackfillIntervalMs
  /\ height' = height + 1
  /\ UNCHANGED <<now, phase, state, file, lastRun, pass, nft,
                 throwOnMintFailure, env, ws, legacyMintEnabled, cohortEnabled, cohortEligiblePercent, sqliteDb, crashes, probe>>

\* lines 646-653: the handler records lastRun and calls backfillSwaps
OnBlockRun ==
  /\ phase = "listening"
  /\ ws = "open"
  /\ height < MaxHeight
  /\ ~(now - lastRun < minBackfillIntervalMs)
  /\ InFlight < MaxPasses
  /\ pass' = pass (+) SetToBag({FirstBackfill})
  /\ lastRun' = now
  /\ height' = height + 1
  /\ UNCHANGED <<now, phase, state, file, nft, throwOnMintFailure, env, ws, legacyMintEnabled, cohortEnabled, cohortEligiblePercent, sqliteDb, crashes, probe>>

\* a pass that returns early only when the target is below the cursor
GetBlockNumberStrict(p) ==
  /\ p.pc = "getBlock"
  /\ LET current == height
         target == current - confirmations
         from == state.lastProcessedSwapBlock + 1
         to == Min(from + chunkSize - 1, target)
     IN Continue(p,
          IF target < state.lastProcessedSwapBlock
          THEN Yield(state, file, p, "done")
          ELSE Yield(state, file,
                     [p EXCEPT !.pc = "query", !.target = target, !.from = from,
                               !.to = to, !.end = to], "await"))
  /\ UNCHANGED <<height, now, nft, throwOnMintFailure, env, ws, legacyMintEnabled,
                 cohortEnabled, cohortEligiblePercent, sqliteDb, crashes, probe>>

\* a pass that returns early unless two blocks or more are to be fetched
GetBlockNumberLazy(p) ==
  /\ p.pc = "getBlock"
  /\ LET current == height
         target == current - confirmations
         from == state.lastProcessedSwapBlock + 1
         to == Min(from + chunkSize - 1, target)
     IN Continue(p,
          IF target <= state.lastProcessedSwapBlock + 1
          THEN Yield(state, file, p, "done")
          ELSE Yield(state, file,
                     [p EXCEPT !.pc = "query", !.target = target, !.from = from,
                               !.to = to, !.end = to], "await"))
  /\ UNCHANGED <<height, now, nft, throwOnMintFailure, env, ws, legacyMintEnabled,
                 cohortEnabled, cohortEligiblePercent, sqliteDb, crashes, probe>>

\* lines 560-567: getBlockNumber answered
GetBlockNumber(p) ==
  /\ p.pc = "getBlock"
  /\ LET current == height
         target == current - confirmations
         from == state.lastProcessedSwapBlock + 1
         to == Min(from + chunkSize - 1, target)
     IN Continue(p,
          IF target <= state.lastProcessedSwapBlock
          THEN Yield(state, file, p, "done")
          ELSE Yield(state, file,
                     [p EXCEPT !.pc = "query", !.target = target, !.from = from,
                               !.to = to, !.end = to], "await"))
  /\ UNCHANGED <<height, now, nft, throwOnMintFailure, env, ws, legacyMintEnabled, cohortEnabled, cohortEligiblePercent, sqliteDb, crashes, probe>>

\* lines 429-431 and 567-569: the provider answers the query for [start, end]
QueryOk(p) ==
  /\ p.pc = "query"
  /\ Continue(p, foldLoop(state, file,
                          [p EXCEPT !.logs = queryFilter(p.from, p.end), !.pos = 1], now))
  /\ UNCHANGED <<height, now, nft, throwOnMintFailure, env, ws, legacyMintEnabled, cohortEnabled, cohortEligiblePercent, sqliteDb, crashes, probe>>

\* what queryFilter can reject with: the provider's rate limit ("Too Many
\* Requests", code -32005) or any other error
ProviderErrors == {"rate limited", "internal error"}

\* lines 432-436: queryFilter rejects with e, which the catch block does not
\* look at; a single block rethrows, a longer range is cut to its lower
\* half and retried
QueryFailWith(p, e) ==
  /\ p.pc = "query"
  /\ Continue(p,
       IF p.from = p.end
       THEN Yield(state, file, p, "thrown")
       ELSE Yield(state, file,
                  [p EXCEPT !.end = p.from + ((p.end - p.from) \div 2)], "await"))
  /\ UNCHANGED <<height, now, nft, throwOnMintFailure, env, ws, legacyMintEnabled, cohortEnabled, cohortEligiblePercent, sqliteDb, crashes, probe>>

\* a fetcher that, when a single block fails, gives up on the block and
\* reports it as fetched with no logs
QueryFailSkipsBlock(p) ==
  /\ p.pc = "query"
  /\ Continue(p,
       IF p.from = p.end
       THEN foldLoop(state, file, [p EXCEPT !.logs = <<>>, !.pos = 1], now)
       ELSE Yield(state, file,
                  [p EXCEPT !.end = p.from + ((p.end - p.from) \div 2)], "await"))
  /\ UNCHANGED <<height, now, nft, throwOnMintFailure, env, ws, legacyMintEnabled, cohortEnabled, cohortEligiblePercent, sqliteDb, crashes, probe>>

\* lines 432-436 for whatever the provider rejects with
QueryFail(p) == \E e \in ProviderErrors : QueryFailWith(p, e)

\* a gate that believes the cache: the wallet is passed over whatever the
\* ledger answers
HasMintedCacheCheckTrustsCache(p) ==
  /\ p.pc = "hasMintedCache"
  /\ Continue(p, nextLog(skipped(state, "swap", TRUE), file, p, now))
  /\ UNCHANGED <<height, now, nft, throwOnMintFailure, env, ws, legacyMintEnabled,
                 cohortEnabled, cohortEligiblePercent, sqliteDb, crashes, probe>>

\* lines 480-487: the cache said minted; the ledger is asked
HasMintedCacheCheck(p) ==
  /\ p.pc = "hasMintedCache"
  /\ LET buyerL == toLowerAddr(buyerOf(p))
         already == nft.hasMinted[buyerL]
         s1 == [state EXCEPT !.mintedCache = Del(@, buyerL)]
     IN Continue(p,
          IF already
          THEN nextLog(skipped(state, "swap", TRUE), file, p, now)
          ELSE Yield(s1, saveState(s1), [p EXCEPT !.pc = "hasMinted"], "await"))
  /\ UNCHANGED <<height, now, nft, throwOnMintFailure, env, ws, legacyMintEnabled, cohortEnabled, cohortEligiblePercent, sqliteDb, crashes, probe>>

\* lines 489-507: the authoritative check, the threshold check, and the
\* submission of mint(buyer)
HasMintedCheck(p) ==
  /\ p.pc = "hasMinted"
  /\ LET buyerL == toLowerAddr(buyerOf(p))
         already == nft.hasMinted[buyerL]
         s1 == skipped([state EXCEPT !.mintedCache = Put(@, buyerL, TRUE)], "swap", TRUE)
         cum == parseBigintSafe(Get(state.cumulativeBuys, buyerL))
     IN Continue(p,
          IF already THEN nextLog(s1, saveState(s1), p, now)
          ELSE IF belowThreshold(cum) THEN nextLog(state, file, p, now)
          ELSE Yield(state, file, [p EXCEPT !.pc = "mint"], "await"))
  /\ UNCHANGED <<height, now, nft, throwOnMintFailure, env, ws, legacyMintEnabled, cohortEnabled, cohortEligiblePercent, sqliteDb, crashes, probe>>

\* lines 542-544
mintSucceeded(s, buyerL) ==
  [s EXCEPT !.mintedCache = Put(@, buyerL, TRUE), !.mintFailures = Del(@, buyerL)]

\* a catch block that also marks the wallet as handled in the cache
mintFailedAtCached(s, buyerL, t) ==
  [s EXCEPT !.mintFailures = Put(@, buyerL, DecStr(t)),
            !.mintedCache = Put(@, buyerL, TRUE)]

\* lines 547-548
mintFailedAt(s, buyerL, t) ==
  [s EXCEPT !.mintFailures = Put(@, buyerL, DecStr(t))]

\* a catch block that rethrows whatever the policy
catchMintFailureRethrow(s, p, t, strict) ==
  LET s1 == mintFailedAt(s, toLowerAddr(ChainLog[p.logs[p.pos]].recipient), t)
  IN Yield(s1, saveState(s1), p, "thrown")

\* lines 545-555: the catch block
catchMintFailure(s, p, t, strict) ==
  LET s1 == mintFailedAt(s, toLowerAddr(buyerOf(p)), t)
  IN IF strict
     THEN Yield(s1, saveState(s1), p, "thrown")
     ELSE nextLog(s1, saveState(s1), p, t)

\* lines 507-544: the transaction is mined and tx.wait() resolves; with the
\* index open the insert into controller_mints is awaited first
MintConfirmed(p) ==
  /\ p.pc = "mint"
  /\ LET buyerL == toLowerAddr(buyerOf(p))
         s1 == mintSucceeded(state, buyerL)
     IN /\ ~mintReverts(nft, buyerL)
        /\ nft' = mintEffect(nft, buyerL)
        /\ Continue(p, IF sqliteDb.open
                       THEN Yield(state, file, [p EXCEPT !.pc = "insertMint"], "await")
                       ELSE nextLog(s1, saveState(s1), p, now))
  /\ UNCHANGED <<height, now, throwOnMintFailure, env, ws, legacyMintEnabled, cohortEnabled, cohortEligiblePercent, sqliteDb, crashes, probe>>

\* lines 507-509, 545-555: mint(buyer) or tx.wait() rejects and the ledger
\* is unchanged (revert, out of gas, send error)
MintFailed(p) ==
  /\ p.pc = "mint"
  /\ Continue(p, catchMintFailure(state, p, now, throwOnMintFailure))
  /\ UNCHANGED <<height, now, nft, throwOnMintFailure, env, ws, legacyMintEnabled, cohortEnabled, cohortEligiblePercent, sqliteDb, crashes, probe>>

\* the transaction is mined but tx.wait() rejects (timeout, dropped
\* connection): the ledger has issued, the controller records a failure
MintUnconfirmed(p) ==
  /\ p.pc = "mint"
  /\ LET buyerL == toLowerAddr(buyerOf(p))
     IN /\ ~mintReverts(nft, buyerL)
        /\ nft' = mintEffect(nft, buyerL)
  /\ Continue(p, catchMintFailure(state, p, now, throwOnMintFailure))
  /\ UNCHANGED <<height, now, throwOnMintFailure, env, ws, legacyMintEnabled, cohortEnabled, cohortEligiblePercent, sqliteDb, crashes, probe>>

(* --------------- the legacy transfer-driven gate (optional) ----------- *)

\* The tracked token's Transfer events, in on-chain order.
TransferLog ==
  << [block |-> 1, from |-> "0x000", to |-> "0xAAA", value |-> 2000],
     [block |-> 1, from |-> "0xAAA", to |-> "0xBBB", value |-> 100],
     [block |-> 2, from |-> "0xBBB", to |-> "0xAAA", value |-> 100],
     [block |-> 2, from |-> "0xAAA", to |-> "0xCcC", value |-> 300],
     [block |-> 3, from |-> "0xCcC", to |-> "0x000", value |-> 50] >>

TransferKeys == 1..Len(TransferLog)

\* token.queryFilter(filter, lo, hi) when the provider answers
RECURSIVE TransferKeysIn(_, _, _)
TransferKeysIn(lo, hi, k) ==
  IF k > Len(TransferLog) THEN <<>>
  ELSE IF TransferLog[k].block >= lo /\ TransferLog[k].block <= hi
       THEN <<k>> \o TransferKeysIn(lo, hi, k + 1)
       ELSE TransferKeysIn(lo, hi, k + 1)

queryTransferFilter(lo, hi) == TransferKeysIn(lo, hi, 1)

\* token.balanceOf(w) at the head h of the chain
RECURSIVE balanceUpTo(_, _, _)
balanceUpTo(w, h, k) ==
  IF k = 0 THEN 0
  ELSE balanceUpTo(w, h, k - 1)
       + (IF TransferLog[k].block <= h /\ toLowerAddr(TransferLog[k].to) = w
          THEN TransferLog[k].value ELSE 0)
       - (IF TransferLog[k].block <= h /\ toLowerAddr(TransferLog[k].from) = w
          THEN TransferLog[k].value ELSE 0)

balanceOf(w, h) == balanceUpTo(toLowerAddr(w), h, Len(TransferLog))

\* the recipient of the Transfer the pass is evaluating
toOf(p) == TransferLog[p.logs[p.pos]].to

\* lines 339-347: the synchronous head of handleEligibleLegacy, up to its
\* first await: "return", "cached" (the return of line 345), or "hasMinted"
legacyEntry(s, to) ==
  IF ~legacyMintEnabled THEN "return"
  ELSE IF ~isAddress(to) \/ to = ZeroAddress THEN "return"
  ELSE IF ~isInEligibleCohort(to, cohortEnabled, cohortEligiblePercent, cohortSalt) THEN "return"
  ELSE IF cached(s, toLowerAddr(to)) THEN "cached"
  ELSE "hasMinted"

\* lines 416-419, and 641 / 653 when the last chunk is done: the transfer
\* cursor is written and the next chunk is requested, or backfillTransfers
\* returns and backfillSwaps is called, which awaits getBlockNumber
transfersChunkEnd(s, f, p) ==
  LET s1 == [s EXCEPT !.lastProcessedTransferBlock = p.to]
      from == p.to + 1
      to == Min(from + chunkSize - 1, p.target)
  IN IF from <= p.target
     THEN Yield(s1, saveState(s1),
                [p EXCEPT !.pc = "transfers.query", !.from = from, !.to = to,
                          !.end = to, !.logs = <<>>, !.pos = 0], "await")
     ELSE Yield(s1, saveState(s1), NewPass, "await")

\* lines 396-414: the for-loop over the Transfer logs of a chunk, run from
\* the log at p.pos until handleEligibleLegacy or dbRun awaits or the
\* chunk ends; dbRun resolves at once when the index is not open
RECURSIVE legacyLoop(_, _, _)
legacyLoop(s, f, p) ==
  IF p.pos > Len(p.logs) THEN transfersChunkEnd(s, f, p)
  ELSE
    LET g == legacyEntry(s, toOf(p))
        s1 == IF g = "cached" THEN skipped(s, "legacy", FALSE) ELSE s
    IN IF g = "hasMinted"
       THEN Yield(s, f, [p EXCEPT !.pc = "transfers.hasMinted"], "await")
       ELSE IF sqliteDb.open
       THEN Yield(s1, f, [p EXCEPT !.pc = "transfers.insert"], "await")
       ELSE legacyLoop(s1, f, [p EXCEPT !.pos = @ + 1])

\* lines 400-413: handleEligibleLegacy returned for the log at p.pos
nextTransfer(s, f, p) ==
  IF sqliteDb.open
  THEN Yield(s, f, [p EXCEPT !.pc = "transfers.insert"], "await")
  ELSE legacyLoop(s, f, [p EXCEPT !.pos = @ + 1])

\* lines 385-394: getBlockNumber answered
TransfersGetBlockNumber(p) ==
  /\ p.pc = "transfers.getBlock"
  /\ LET current == height
         target == current - confirmations
         from == state.lastProcessedTransferBlock + 1
         to == Min(from + chunkSize - 1, target)
     IN Continue(p,
          IF target <= state.lastProcessedTransferBlock
          THEN Yield(state, file, NewPass, "await")
          ELSE Yield(state, file,
                     [p EXCEPT !.pc = "transfers.query", !.target = target,
                               !.from = from, !.to = to, !.end = to], "await"))
  /\ UNCHANGED <<height, now, nft, throwOnMintFailure, env, ws, legacyMintEnabled, cohortEnabled, cohortEligiblePercent, sqliteDb, crashes, probe>>

\* lines 373-375 and 394-396
TransfersQueryOk(p) ==
  /\ p.pc = "transfers.query"
  /\ Continue(p, legacyLoop(state, file,
                   [p EXCEPT !.logs = queryTransferFilter(p.from, p.end), !.pos = 1]))
  /\ UNCHANGED <<height, now, nft, throwOnMintFailure, env, ws, legacyMintEnabled, cohortEnabled, cohortEligiblePercent, sqliteDb, crashes, probe>>

\* lines 376-379: queryFilter rejects with e, which the catch block does
\* not look at
TransfersQueryFailWith(p, e) ==
  /\ p.pc = "transfers.query"
  /\ Continue(p,
       IF p.from = p.end
       THEN Yield(state, file, p, "thrown")
       ELSE Yield(state, file,
                  [p EXCEPT !.end = p.from + ((p.end - p.from) \div 2)], "await"))
  /\ UNCHANGED <<height, now, nft, throwOnMintFailure, env, ws, legacyMintEnabled, cohortEnabled, cohortEligiblePercent, sqliteDb, crashes, probe>>

\* lines 376-379 for whatever the provider rejects with
TransfersQueryFail(p) == \E e \in ProviderErrors : TransfersQueryFailWith(p, e)

\* lines 347-354: nft.hasMinted(to) answered
LegacyHasMinted(p) ==
  /\ p.pc = "transfers.hasMinted"
  /\ LET toL == toLowerAddr(toOf(p))
         already == nft.hasMinted[toL]
         s1 == skipped([state EXCEPT !.mintedCache = Put(@, toL, TRUE)], "legacy", TRUE)
     IN Continue(p,
          IF already THEN nextTransfer(s1, saveState(s1), p)
          ELSE Yield(state, file, [p EXCEPT !.pc = "transfers.balanceOf"], "await"))
  /\ UNCHANGED <<height, now, nft, throwOnMintFailure, env, ws, legacyMintEnabled, cohortEnabled, cohortEligiblePercent, sqliteDb, crashes, probe>>

\* lines 354-360: token.balanceOf(to) answered; mint(to) is submitted
LegacyBalanceOf(p) ==
  /\ p.pc = "transfers.balanceOf"
  /\ LET bal == balanceOf(toOf(p), height)
     IN Continue(p,
          IF bal < threshold THEN nextTransfer(state, file, p)
          ELSE Yield(state, file, [p EXCEPT !.pc = "transfers.mint"], "await"))
  /\ UNCHANGED <<height, now, nft, throwOnMintFailure, env, ws, legacyMintEnabled, cohortEnabled, cohortEligiblePercent, sqliteDb, crashes, probe>>

\* lines 360-365: the transaction is mined and tx.wait() resolves
LegacyMintConfirmed(p) ==
  /\ p.pc = "transfers.mint"
  /\ LET toL == toLowerAddr(toOf(p))
         s1 == [state EXCEPT !.mintedCache = Put(@, toL, TRUE)]
     IN /\ ~mintReverts(nft, toL)
        /\ nft' = mintEffect(nft, toL)
        /\ Continue(p, nextTransfer(s1, saveState(s1), p))
  /\ UNCHANGED <<height, now, throwOnMintFailure, env, ws, legacyMintEnabled, cohortEnabled, cohortEligiblePercent, sqliteDb, crashes, probe>>

\* lines 360-361: mint(to) or tx.wait() rejects, the ledger is unchanged;
\* nothing catches in handleEligibleLegacy, backfillTransfers throws
LegacyMintFailed(p) ==
  /\ p.pc = "transfers.mint"
  /\ Continue(p, Yield(state, file, p, "thrown"))
  /\ UNCHANGED <<height, now, nft, throwOnMintFailure, env, ws, legacyMintEnabled, cohortEnabled, cohortEligiblePercent, sqliteDb, crashes, probe>>

\* the transaction is mined but tx.wait() rejects
LegacyMintUnconfirmed(p) ==
  /\ p.pc = "transfers.mint"
  /\ LET toL == toLowerAddr(toOf(p))
     IN /\ ~mintReverts(nft, toL)
        /\ nft' = mintEffect(nft, toL)
  /\ Continue(p, Yield(state, file, p, "thrown"))
  /\ UNCHANGED <<height, now, throwOnMintFailure, env, ws, legacyMintEnabled, cohortEnabled, cohortEligiblePercent, sqliteDb, crashes, probe>>

(* ------------------------- the analytic index ------------------------- *)

\* the keys of the rows of a table
keysOf(table) == {table[i].key : i \in DOMAIN table}

\* an INSERT into a table without a uniqueness constraint
insertPlain(table, row) == Append(table, row)

\* INSERT OR IGNORE into a table with PRIMARY KEY (tx_hash, log_index)
\* (lines 150, 163, 175): a row whose key is in the table is dropped
insertOrIgnore(table, row) ==
  IF row.key \in keysOf(table) THEN table ELSE Append(table, row)

\* the ghost field after the insert of row into table
insertedAgain(again, table, row) ==
  IF row.key \in keysOf(table) THEN again \cup {row.key} ELSE again

\* lines 606-618: the row of the Swap log k; every log of the chain is in a
\* transaction of its own, which its block and log index name
swapRow(k) ==
  LET log == ChainLog[k]
  IN [ key |-> <<"swap", log.block, log.logIndex>>,
       block_number |-> log.block,
       sender |-> toLowerAddr(log.sender),
       recipient |-> toLowerAddr(log.recipient),
       amount0 |-> log.amount0,
       amount1 |-> log.amount1,
       token_bought_raw |-> getTokenBoughtFromSwap(log.amount0, log.amount1) ]

\* lines 405-412: the row of the Transfer log k
transferRow(k) ==
  LET log == TransferLog[k]
  IN [ key |-> <<"transfer", log.block, k>>,
       block_number |-> log.block,
       from_address |-> toLowerAddr(log.from),
       to_address |-> toLowerAddr(log.to),
       value_raw |-> log.value ]

\* NFT_ABI (lines 203-206): hasMinted and mint; the event fragments of
\* nft.interface are none
NftAbiEvents == {}

\* receipt.logs of the confirmed mint(buyer): _safeMint emits
\* Transfer(0, buyer, tokenId), the second log of its block in the model
receiptLogs(c, buyerL) ==
  LET tokenId == CHOOSE i \in DOMAIN c.owners : c.owners[i] = buyerL
  IN << [name |-> "Transfer", to |-> buyerL, tokenId |-> tokenId, logIndex |-> 1] >>

\* lines 516-525: the logs nft.interface.parseLog knows (it answers null,
\* or throws, for an event that is not in the ABI) that are a Transfer to
\* the buyer
parsedTransfers(logs, buyerL) ==
  SelectSeq(logs, LAMBDA log :
    log.name \in NftAbiEvents /\ log.name = "Transfer" /\ toLowerAddr(log.to) = buyerL)

\* lines 513-538: the row of the mint to buyerL; mintedTokenId stays null
\* and logIndex 0 unless a Transfer log was parsed.  The transaction hash
\* is named by the identifier the transaction issued
mintRow(c, buyerL) ==
  LET logs == receiptLogs(c, buyerL)
      found == parsedTransfers(logs, buyerL)
      mintedTokenId == IF found = <<>> THEN NoEntry ELSE DecStr(found[1].tokenId)
      logIndex == IF found = <<>> THEN 0 ELSE found[1].logIndex
  IN [ key |-> <<"mint", logs[1].tokenId, logIndex>>,
       to_address |-> buyerL,
       token_id |-> IF mintedTokenId = NoEntry THEN DecStr(0) ELSE mintedTokenId ]

\* lines 186-194 and 601-619: the insert into controller_swaps succeeded
InsertSwapOk(p) ==
  /\ p.pc = "insertSwap"
  /\ LET row == swapRow(p.logs[p.pos])
     IN sqliteDb' = [sqliteDb EXCEPT !.swaps = insertOrIgnore(@, row),
                                     !.again = insertedAgain(@, sqliteDb.swaps, row)]
  /\ Continue(p, foldLoop(state, file, [p EXCEPT !.pos = @ + 1], now))
  /\ UNCHANGED <<height, now, nft, throwOnMintFailure, env, ws, legacyMintEnabled,
                 cohortEnabled, cohortEligiblePercent, crashes, probe>>

\* lines 186-194 and 601-619: db.run reports an error, dbRun rejects, and
\* nothing between the await and the caller of backfillSwaps catches
InsertSwapFail(p) ==
  /\ p.pc = "insertSwap"
  /\ Continue(p, Yield(state, file, p, "thrown"))
  /\ UNCHANGED <<height, now, nft, throwOnMintFailure, env, ws, legacyMintEnabled,
                 cohortEnabled, cohortEligiblePercent, sqliteDb, crashes, probe>>

\* lines 186-194 and 400-413: the insert into controller_transfers succeeded
InsertTransferOk(p) ==
  /\ p.pc = "transfers.insert"
  /\ LET row == transferRow(p.logs[p.pos])
     IN sqliteDb' = [sqliteDb EXCEPT !.transfers = insertOrIgnore(@, row),
                                     !.again = insertedAgain(@, sqliteDb.transfers, row)]
  /\ Continue(p, legacyLoop(state, file, [p EXCEPT !.pos = @ + 1]))
  /\ UNCHANGED <<height, now, nft, throwOnMintFailure, env, ws, legacyMintEnabled,
                 cohortEnabled, cohortEligiblePercent, crashes, probe>>

\* lines 186-194 and 400-413: dbRun rejects and backfillTransfers throws
InsertTransferFail(p) ==
  /\ p.pc = "transfers.insert"
  /\ Continue(p, Yield(state, file, p, "thrown"))
  /\ UNCHANGED <<height, now, nft, throwOnMintFailure, env, ws, legacyMintEnabled,
                 cohortEnabled, cohortEligiblePercent, sqliteDb, crashes, probe>>

\* lines 512-544: the insert into controller_mints succeeded
InsertMintOk(p) ==
  /\ p.pc = "insertMint"
  /\ LET buyerL == toLowerAddr(buyerOf(p))
         s1 == mintSucceeded(state, buyerL)
         row == mintRow(nft, buyerL)
     IN /\ sqliteDb' = [sqliteDb EXCEPT !.mints = insertOrIgnore(@, row),
                                        !.again = insertedAgain(@, sqliteDb.mints, row)]
        /\ Continue(p, nextLog(s1, saveState(s1), p, now))
  /\ UNCHANGED <<height, now, nft, throwOnMintFailure, env, ws, legacyMintEnabled,
                 cohortEnabled, cohortEligiblePercent, crashes, probe>>

\* lines 526-538 and 545-555: dbRun rejects inside the try of the mint
\* attempt, so the catch block runs
InsertMintFail(p) ==
  /\ p.pc = "insertMint"
  /\ Continue(p, catchMintFailure(state, p, now, throwOnMintFailure))
  /\ UNCHANGED <<height, now, nft, throwOnMintFailure, env, ws, legacyMintEnabled,
                 cohortEnabled, cohortEligiblePercent, sqliteDb, crashes, probe>>

Next ==
  \/ Start
  \/ Crash
  \/ Tick
  \/ NewBlockUnheard
  \/ OnBlockThrottled
  \/ OnBlockRun
  \/ \E p \in Passes : GetBlockNumber(p)
  \/ \E p \in Passes : QueryOk(p)
  \/ \E p \in Passes : QueryFail(p)
  \/ \E p \in Passes : HasMintedCacheCheck(p)
  \/ \E p \in Passes : HasMintedCheck(p)
  \/ \E p \in Passes : MintConfirmed(p)
  \/ \E p \in Passes : MintFailed(p)
  \/ \E p \in Passes : MintUnconfirmed(p)

Spec == Init /\ [][Next]_vars

\* The same controller when no block notification arrives after the
\* minimum interval while a pass is still in flight: passes never overlap.
\* Every behaviour of SpecSerial is a behaviour of Spec.
OnBlockRunSerial == InFlight = 0 /\ OnBlockRun

NextSerial ==
  \/ Start
  \/ Crash
  \/ Tick
  \/ NewBlockUnheard
  \/ OnBlockThrottled
  \/ OnBlockRunSerial
  \/ \E p \in Passes : GetBlockNumber(p)
  \/ \E p \in Passes : QueryOk(p)
  \/ \E p \in Passes : QueryFail(p)
  \/ \E p \in Passes : HasMintedCacheCheck(p)
  \/ \E p \in Passes : HasMintedCheck(p)
  \/ \E p \in Passes : MintConfirmed(p)
  \/ \E p \in Passes : MintFailed(p)
  \/ \E p \in Passes : MintUnconfirmed(p)

SpecSerial == Init /\ [][NextSerial]_vars

(* ------------- the authoritative check, answer and resumption --------- *)

\* line 490: the ledger evaluates hasMinted(buyer).  A true answer leads to
\* lines 491-495 whenever it is delivered, since hasMinted never turns false;
\* a false answer travels back to the awaiting pass
HasMintedAnswered(p) ==
  /\ p.pc = "hasMinted"
  /\ LET buyerL == toLowerAddr(buyerOf(p))
         already == nft.hasMinted[buyerL]
         s1 == skipped([state EXCEPT !.mintedCache = Put(@, buyerL, TRUE)], "swap", TRUE)
     IN Continue(p,
          IF already THEN nextLog(s1, saveState(s1), p, now)
          ELSE Yield(state, file, [p EXCEPT !.pc = "hasMinted.false"], "await"))
  /\ UNCHANGED <<height, now, nft, throwOnMintFailure, env, ws, legacyMintEnabled,
                 cohortEnabled, cohortEligiblePercent, sqliteDb, crashes, probe>>

\* lines 490-508: the await resumes with the answer false; the threshold
\* check, and the call of nft.mint(buyer)
HasMintedResumed(p) ==
  /\ p.pc = "hasMinted.false"
  /\ LET buyerL == toLowerAddr(buyerOf(p))
         cum == parseBigintSafe(Get(state.cumulativeBuys, buyerL))
     IN Continue(p,
          IF belowThreshold(cum) THEN nextLog(state, file, p, now)
          ELSE Yield(state, file, [p EXCEPT !.pc = "mint"], "await"))
  /\ UNCHANGED <<height, now, nft, throwOnMintFailure, env, ws, legacyMintEnabled,
                 cohortEnabled, cohortEligiblePercent, sqliteDb, crashes, probe>>

NextSubmit ==
  \/ Start
  \/ Crash
  \/ Tick
  \/ NewBlockUnheard
  \/ OnBlockThrottled
  \/ OnBlockRun
  \/ \E p \in Passes : GetBlockNumber(p)
  \/ \E p \in Passes : QueryOk(p)
  \/ \E p \in Passes : QueryFail(p)
  \/ \E p \in Passes : HasMintedCacheCheck(p)
  \/ \E p \in Passes : HasMintedAnswered(p)
  \/ \E p \in Passes : HasMintedResumed(p)
  \/ \E p \in Passes : MintConfirmed(p)
  \/ \E p \in Passes : MintFailed(p)
  \/ \E p \in Passes : MintUnconfirmed(p)

SpecSubmit == Init /\ [][NextSubmit]_vars

(* -------------------- the controller that keeps running --------------- *)

\* A time the controller holds, read against a clock that has moved one
\* tick further.  The code uses the times it holds only in now - lastRun <
\* minBackfillIntervalMs (line 647), in now - lastFailMs <
\* mintFailureCooldownMs and in lastFailMs = 0 (lines 471-473); a time that
\* lies MaxTime - 1 ticks back has passed both intervals, and stays there
earlier(t) == IF t = 0 THEN 0 ELSE Max(t - 1, 1)

\* the failure times of a state object against the clock one tick further
earlierState(s) ==
  [s EXCEPT !.mintFailures =
     [w \in DOMAIN s.mintFailures |-> DecStr(earlier(ParseDec(s.mintFailures[w])))]]

\* Date.now() advances beyond MaxTime: the clock of the model stays, and
\* every time the controller holds, in memory and in the state file, moves
\* one tick back
TickOn ==
  /\ now = MaxTime
  /\ lastRun' = earlier(lastRun)
  /\ state' = earlierState(state)
  /\ file' = IF file = NoFile THEN NoFile ELSE saveState(earlierState(loadState(file)))
  /\ UNCHANGED <<height, now, phase, pass, nft, throwOnMintFailure, env, ws,
                 legacyMintEnabled, cohortEnabled, cohortEligiblePercent, sqliteDb, crashes, probe>>

\* The heads above MaxHeight hold no Swap of the pool; the model does not
\* count them, its height stays MaxHeight.  Such a head while no handler is
\* registered
NewBlockUnheardOn ==
  /\ phase # "listening" \/ ws = "closed"
  /\ height = MaxHeight
  /\ UNCHANGED vars

\* lines 646-648 for a head above MaxHeight: the notification is dropped
OnBlockThrottledOn ==
  /\ phase = "listening"
  /\ ws = "open"
  /\ height = MaxHeight
  /\ now - lastRun < minBackfillIntervalMs
  /\ UNCHANGED vars

\* lines 646-653 for a head above MaxHeight
OnBlockRunOn ==
  /\ phase = "listening"
  /\ ws = "open"
  /\ height = MaxHeight
  /\ ~(now - lastRun < minBackfillIntervalMs)
  /\ InFlight < MaxPasses
  /\ pass' = pass (+) SetToBag({FirstBackfill})
  /\ lastRun' = now
  /\ UNCHANGED <<height, now, phase, state, file, nft, throwOnMintFailure, env, ws,
                 legacyMintEnabled, cohortEnabled, cohortEligiblePercent, sqliteDb, crashes, probe>>

\* the controller under either failure policy (line 251)
InitLive ==
  /\ height = 0
  /\ now = 1
  /\ phase = "down"
  /\ state = EmptyState
  /\ file = NoFile
  /\ lastRun = 0
  /\ pass = NoPass
  /\ nft = NftInit
  /\ throwOnMintFailure \in BOOLEAN
  /\ env = DefaultEnv
  /\ ws = "open"
  /\ legacyMintEnabled = FALSE
  /\ cohortEnabled = TRUE
  /\ cohortEligiblePercent = DefaultEligiblePercent
  /\ sqliteDb = NoDb
  /\ crashes = 0
  /\ probe = NoProbe

\* Under THROW_ON_MINT_FAILURE the pass that met the failure throws before
\* the cursor is written, and the next pass adds the logs of the chunk to
\* cumulativeBuys once more: the volumes grow with every failed attempt.
\* The attempts that fail after such a repetition are bounded by MaxRetries
Retriable(p) ==
  /\ p.pc = "mint"
  /\ throwOnMintFailure => state.folds[p.logs[p.pos]] <= MaxRetries

\* lines 646-653 for a head above MaxHeight, when no pass is in flight
OnBlockRunOnSerial == InFlight = 0 /\ OnBlockRunOn

NextLive ==
  \/ Start
  \/ Crash
  \/ Tick
  \/ TickOn
  \/ NewBlockUnheard
  \/ NewBlockUnheardOn
  \/ OnBlockThrottled
  \/ OnBlockThrottledOn
  \/ OnBlockRunSerial
  \/ OnBlockRunOnSerial
  \/ \E p \in Passes : GetBlockNumber(p)
  \/ \E p \in Passes : QueryOk(p)
  \/ \E p \in Passes : QueryFail(p)
  \/ \E p \in Passes : HasMintedCacheCheck(p)
  \/ \E p \in Passes : HasMintedCheck(p)
  \/ \E p \in Passes : MintConfirmed(p)
  \/ \E p \in Passes : Retriable(p) /\ MintFailed(p)
  \/ \E p \in Passes : Retriable(p) /\ MintUnconfirmed(p)

\* a pass waits at one of the awaits pcs
Awaits(pcs) == \E p \in Passes : p.pc \in pcs

\* a pass waits for a mint that the ledger would accept
MintAcceptable ==
  \E p \in Passes : p.pc = "mint" /\ ~mintReverts(nft, toLowerAddr(buyerOf(p)))

\* The running system: time passes; a supervisor restarts the process when
\* it has exited (lines 660-662); block notifications keep arriving, so
\* that again and again one arrives outside the throttle interval; every
\* call the controller awaits is answered; the provider answers a log
\* query again and again, and a mint the ledger accepts is confirmed again
\* and again.  The fairness of a step of a pass is written out, with the
\* await the pass waits at for ENABLED: weak fairness of A is
\* []<>~ENABLED <<A>>_vars \/ []<><<A>>_vars, strong fairness
\* <>[]~ENABLED <<A>>_vars \/ []<><<A>>_vars
SpecLive ==
  /\ InitLive
  /\ [][NextLive]_vars
  /\ WF_vars(Start)
  /\ WF_vars(Tick \/ TickOn)
  /\ SF_vars(OnBlockRunSerial \/ OnBlockRunOnSerial)
  /\ WF_vars(\E p \in Passes : GetBlockNumber(p))
  /\ (<>[]~Awaits({"query"}) \/ []<><<\E p \in Passes : QueryOk(p)>>_vars)
  /\ ([]<>~Awaits({"hasMintedCache"}) \/ []<><<\E p \in Passes : HasMintedCacheCheck(p)>>_vars)
  /\ ([]<>~Awaits({"hasMinted"}) \/ []<><<\E p \in Passes : HasMintedCheck(p)>>_vars)
  /\ ([]<>~Awaits({"mint"})
        \/ []<><<\E p \in Passes : MintConfirmed(p) \/ (Retriable(p) /\ MintFailed(p))
                                     \/ (Retriable(p) /\ MintUnconfirmed(p))>>_vars)
  /\ (<>[]~MintAcceptable \/ []<><<\E p \in Passes : MintConfirmed(p)>>_vars)

\* The controller started with LEGACY_BALANCE_MINT_ENABLED=true: every pass
\* runs backfillTransfers, with the legacy gate, before backfillSwaps.
InitLegacy ==
  /\ height = 0
  /\ now = 1
  /\ phase = "down"
  /\ state = EmptyState
  /\ file = NoFile
  /\ lastRun = 0
  /\ pass = NoPass
  /\ nft = NftInit
  /\ throwOnMintFailure \in BOOLEAN
  /\ env = DefaultEnv
  /\ ws = "open"
  /\ legacyMintEnabled = TRUE
  /\ cohortEnabled = TRUE
  /\ cohortEligiblePercent = DefaultEligiblePercent
  /\ sqliteDb = NoDb
  /\ crashes = 0
  /\ probe = NoProbe

NextLegacy ==
  \/ Next
  \/ \E p \in Passes : TransfersGetBlockNumber(p)
  \/ \E p \in Passes : TransfersQueryOk(p)
  \/ \E p \in Passes : TransfersQueryFail(p)
  \/ \E p \in Passes : LegacyHasMinted(p)
  \/ \E p \in Passes : LegacyBalanceOf(p)
  \/ \E p \in Passes : LegacyMintConfirmed(p)
  \/ \E p \in Passes : LegacyMintFailed(p)
  \/ \E p \in Passes : LegacyMintUnconfirmed(p)

SpecLegacy == InitLegacy /\ [][NextLegacy]_vars

(* ------------------- the live notification channel ------------------- *)

\* the process exits with code 1
exit ==
  /\ crashes' = crashes + 1
  /\ phase' = "down"
  /\ state' = EmptyState
  /\ pass' = NoPass
  /\ lastRun' = 0

\* line 661: the websocket emits "close".  The listener is registered after
\* the startup backfill has returned (line 641 precedes 661), so a close
\* during startup meets no listener and is emitted only once
WsClose ==
  /\ ws = "open"
  /\ phase \in {"startup", "listening"}
  /\ crashes < MaxCrashes
  /\ ws' = "closed"
  /\ IF phase = "listening"
     THEN exit
     ELSE UNCHANGED <<crashes, phase, state, pass, lastRun>>
  /\ UNCHANGED <<height, now, file, nft, throwOnMintFailure, env, legacyMintEnabled,
                 cohortEnabled, cohortEligiblePercent, sqliteDb, probe>>

\* line 662: the websocket emits "error".  During startup no listener of
\* main() exists: the event is taken by a listener of the provider, if it
\* has one, or is an uncaught exception that ends the process
WsError ==
  /\ ws = "open"
  /\ phase \in {"startup", "listening"}
  /\ crashes < MaxCrashes
  /\ ws' = "closed"
  /\ \/ exit
     \/ phase = "startup" /\ UNCHANGED <<crashes, phase, state, pass, lastRun>>
  /\ UNCHANGED <<height, now, file, nft, throwOnMintFailure, env, legacyMintEnabled,
                 cohortEnabled, cohortEligiblePercent, sqliteDb, probe>>

\* The controller on a websocket that can close or fail at any moment.
NextChannel ==
  \/ Next
  \/ WsClose
  \/ WsError

SpecChannel == Init /\ [][NextChannel]_vars

(* ------------- functions of the controller applied on their own ------- *)

\* values of COHORT_ELIGIBLE_PERCENT below, inside and above 0..100
CohortPercents == {0 - 1, 0, DefaultEligiblePercent, 100, 101}

\* The controller started with gating off, or on with nobody, the default
\* share or everybody eligible; the cohort gate is decided in the synchronous
\* head of an evaluation, so its passes are taken one at a time.
CohortConfigs ==
  { [enabled |-> FALSE, pct |-> DefaultEligiblePercent],
    [enabled |-> TRUE, pct |-> 0],
    [enabled |-> TRUE, pct |-> DefaultEligiblePercent],
    [enabled |-> TRUE, pct |-> 100] }

InitCohort ==
  /\ height = 0
  /\ now = 1
  /\ phase = "down"
  /\ state = EmptyState
  /\ file = NoFile
  /\ lastRun = 0
  /\ pass = NoPass
  /\ nft = NftInit
  /\ throwOnMintFailure \in BOOLEAN
  /\ env = DefaultEnv
  /\ ws = "open"
  /\ legacyMintEnabled = FALSE
  /\ \E c \in CohortConfigs :
       cohortEnabled = c.enabled /\ cohortEligiblePercent = c.pct
  /\ sqliteDb = NoDb
  /\ crashes = 0
  /\ probe = NoProbe

SpecCohort == InitCohort /\ [][NextSerial]_vars

\* The controller started with swap minting switched on (unset, "yes") or
\* off ("false"), under each cohort configuration.
SwapMintSettings == {"", "yes", "false"}

InitGates ==
  /\ height = 0
  /\ now = 1
  /\ phase = "down"
  /\ state = EmptyState
  /\ file = NoFile
  /\ lastRun = 0
  /\ pass = NoPass
  /\ nft = NftInit
  /\ throwOnMintFailure = FALSE
  /\ \E v \in SwapMintSettings : env = [DefaultEnv EXCEPT !.SWAP_MINT_ENABLED = v]
  /\ ws = "open"
  /\ legacyMintEnabled = FALSE
  /\ \E c \in CohortConfigs :
       cohortEnabled = c.enabled /\ cohortEligiblePercent = c.pct
  /\ sqliteDb = NoDb
  /\ crashes = 0
  /\ probe = NoProbe

SpecGates == InitGates /\ [][NextSerial]_vars

\* The controller started with CONTROLLER_SQLITE_PATH set: the analytic
\* index is open and every insert may succeed or fail.  Passes are taken
\* one at a time.
InitIndex ==
  /\ height = 0
  /\ now = 1
  /\ phase = "down"
  /\ state = EmptyState
  /\ file = NoFile
  /\ lastRun = 0
  /\ pass = NoPass
  /\ nft = NftInit
  /\ throwOnMintFailure \in BOOLEAN
  /\ env = DefaultEnv
  /\ ws = "open"
  /\ legacyMintEnabled = FALSE
  /\ cohortEnabled = TRUE
  /\ cohortEligiblePercent = DefaultEligiblePercent
  /\ sqliteDb = EmptyDb
  /\ crashes = 0
  /\ probe = NoProbe

NextIndex ==
  \/ NextSerial
  \/ \E p \in Passes : InsertSwapOk(p)
  \/ \E p \in Passes : InsertSwapFail(p)
  \/ \E p \in Passes : InsertMintOk(p)
  \/ \E p \in Passes : InsertMintFail(p)

SpecIndex == InitIndex /\ [][NextIndex]_vars

\* The index with LEGACY_BALANCE_MINT_ENABLED=true: every pass indexes the
\* Transfer logs, then the Swap logs.  Passes are taken one at a time.
InitLegacyIndex ==
  /\ height = 0
  /\ now = 1
  /\ phase = "down"
  /\ state = EmptyState
  /\ file = NoFile
  /\ lastRun = 0
  /\ pass = NoPass
  /\ nft = NftInit
  /\ throwOnMintFailure = FALSE
  /\ env = DefaultEnv
  /\ ws = "open"
  /\ legacyMintEnabled = TRUE
  /\ cohortEnabled = TRUE
  /\ cohortEligiblePercent = DefaultEligiblePercent
  /\ sqliteDb = EmptyDb
  /\ crashes = 0
  /\ probe = NoProbe

\* provider and ledger answer every call, the index may reject an insert
\* of a log, and the process may be killed at any await and restarted
NextLegacyIndex ==
  \/ Start
  \/ Crash
  \/ Tick
  \/ NewBlockUnheard
  \/ OnBlockThrottled
  \/ OnBlockRunSerial
  \/ \E p \in Passes : TransfersGetBlockNumber(p)
  \/ \E p \in Passes : TransfersQueryOk(p)
  \/ \E p \in Passes : LegacyHasMinted(p)
  \/ \E p \in Passes : LegacyBalanceOf(p)
  \/ \E p \in Passes : LegacyMintConfirmed(p)
  \/ \E p \in Passes : InsertTransferOk(p)
  \/ \E p \in Passes : GetBlockNumber(p)
  \/ \E p \in Passes : QueryOk(p)
  \/ \E p \in Passes : HasMintedCacheCheck(p)
  \/ \E p \in Passes : HasMintedCheck(p)
  \/ \E p \in Passes : MintConfirmed(p)
  \/ \E p \in Passes : InsertSwapOk(p)
  \/ \E p \in Passes : InsertMintOk(p)
  \/ \E p \in Passes : InsertSwapFail(p)
  \/ \E p \in Passes : InsertTransferFail(p)

SpecLegacyIndex == InitLegacyIndex /\ [][NextLegacyIndex]_vars

\* The controller started on a state file whose minted-cache is wrong: it
\* says 0xaaa is minted, the ledger (a fresh JSTVIP deployment) says not.
StaleFile == saveState([EmptyState EXCEPT !.mintedCache = Put(EmptyMap, "0xaaa", TRUE)])

InitStale ==
  /\ height = 0
  /\ now = 1
  /\ phase = "down"
  /\ state = EmptyState
  /\ file = StaleFile
  /\ lastRun = 0
  /\ pass = NoPass
  /\ nft = NftInit
  /\ throwOnMintFailure \in BOOLEAN
  /\ env = DefaultEnv
  /\ ws = "open"
  /\ legacyMintEnabled = FALSE
  /\ cohortEnabled = TRUE
  /\ cohortEligiblePercent = DefaultEligiblePercent
  /\ sqliteDb = NoDb
  /\ crashes = 0
  /\ probe = NoProbe

SpecStale == InitStale /\ [][Next]_vars

\* Environments a controller can be started in: the configured pool pair
\* as deployed or the other way round, a tracked token that is token1,
\* token0 or no pool asset, a salt or none, gating on or off.
Environments ==
  [ POOL_TOKEN0 : {"0xUSD", "0xTOK"}, POOL_TOKEN1 : {"0xTOK", "0xUSD"},
    TOKEN_ADDRESS : {"0xTOK", "0xUSD", "0xAAA"}, COHORT_SALT : {"", "salt"},
    SWAP_MINT_ENABLED : {""} ]

InitConfig ==
  /\ height = 0
  /\ now = 1
  /\ phase = "down"
  /\ state = EmptyState
  /\ file = NoFile
  /\ lastRun = 0
  /\ pass = NoPass
  /\ nft = NftInit
  /\ throwOnMintFailure = FALSE
  /\ env \in Environments
  /\ ws = "open"
  /\ legacyMintEnabled = FALSE
  /\ cohortEnabled \in BOOLEAN
  /\ cohortEligiblePercent = DefaultEligiblePercent
  /\ sqliteDb = NoDb
  /\ crashes = 0
  /\ probe = NoProbe

SpecConfig == InitConfig /\ [][NextSerial]_vars

\* the controller's variables, which these specifications leave alone
ctl == <<height, now, phase, state, file, lastRun, pass, nft,
         throwOnMintFailure, env, ws, legacyMintEnabled, cohortEnabled, cohortEligiblePercent, sqliteDb, crashes>>

CtlIdle ==
  /\ height = 0
  /\ now = 1
  /\ phase = "down"
  /\ state = EmptyState
  /\ file = NoFile
  /\ lastRun = 0
  /\ pass = NoPass
  /\ nft = NftInit
  /\ throwOnMintFailure = FALSE
  /\ env = DefaultEnv
  /\ ws = "open"
  /\ legacyMintEnabled = FALSE
  /\ cohortEnabled = TRUE
  /\ cohortEligiblePercent = DefaultEligiblePercent
  /\ sqliteDb = NoDb
  /\ crashes = 0

\* decoded Swap logs: (sender, recipient, amount0, amount1) of any sign,
\* the recipient in any casing
SwapArgs ==
  [ sender : {"0xAAA", "0xBBB"},
    recipient : {"0xAAA", "0xaaa", "0xBBB"},
    amount0 : {0 - 5, 0, 5},
    amount1 : {0 - 500, 0, 300} ]

\* lines 585-595 applied to one log after another, for a controller that
\* tracks the pool's token0 (is0) or token1
InitFold ==
  /\ CtlIdle
  /\ probe \in [ is0 : BOOLEAN, log : SwapArgs, before : {EmptyMap},
                 after : {EmptyMap}, n : {0} ]

FoldOne ==
  /\ probe.n < MaxFolds
  /\ \E log \in SwapArgs :
       probe' = [ is0 |-> probe.is0, log |-> log, before |-> probe.after,
                  after |-> foldBuy(probe.after, probe.is0, log),
                  n |-> probe.n + 1 ]
  /\ UNCHANGED ctl

NextFold == FoldOne

SpecFold == InitFold /\ [][NextFold]_vars

\* cohortBucket called with addresses in any casing and two salts, by both
\* controllers; `seen` keeps, per lower-cased address and salt, the first
\* result and the casing it was asked with
CohortAddresses == {"0xAAA", "0xaaa", "0xBBB", "0xbbb", "0xCcC", "0xCCC", "0xccc"}
CohortSalts == {"salt", "pepper"}

InitBucket ==
  /\ CtlIdle
  /\ probe = [ address |-> "", salt |-> "", swaps |-> NaN, balanceBased |-> NaN,
               seen |-> <<>>, n |-> 0 ]

BucketCall ==
  /\ probe.n < MaxCalls
  /\ \E a \in CohortAddresses, s \in CohortSalts :
       LET key == <<toLowerAddr(a), s>>
           b == cohortBucket(a, s)
       IN probe' = [ address |-> a, salt |-> s, swaps |-> b,
                     balanceBased |-> cohortBucketBalanceBased(a, s),
                     seen |-> IF key \in DOMAIN probe.seen THEN probe.seen
                              ELSE Put(probe.seen, key, [bucket |-> b, address |-> a]),
                     n |-> probe.n + 1 ]
  /\ UNCHANGED ctl

NextBucket == BucketCall

SpecBucket == InitBucket /\ [][NextBucket]_vars

(* ------------------- the JSTVIP contract on its own ------------------- *)

\* constructor (lines 19-31): admin_ and minter_, both non-zero
JstvipAdmin == "0xaaa"
JstvipMinter == "0xbbb"

\* accounts that are contracts without onERC721Received: _safeMint to them
\* reverts
NonReceivers == {"0xccc"}

\* the contract after construction: the ledger of NftInit and the holders
\* of DEFAULT_ADMIN_ROLE and MINTER_ROLE
JstvipInit == [nft |-> NftInit, admins |-> {JstvipAdmin}, minters |-> {JstvipMinter}]

\* the outcome of a call: whether it succeeded, the contract afterwards
\* (unchanged by a revert) and the value returned
Outcome(ok, c, ret) == [ok |-> ok, c |-> c, ret |-> ret]

\* mint(to) called by caller (lines 33-42): onlyRole(MINTER_ROLE), the two
\* requires, the id taken and incremented, hasMinted set, _safeMint
jstvipMint(c, caller, to) ==
  IF caller \notin c.minters \/ mintReverts(c.nft, to) \/ to \in NonReceivers
  THEN Outcome(FALSE, c, 0)
  ELSE Outcome(TRUE, [c EXCEPT !.nft = mintEffect(c.nft, to)], c.nft.nextTokenId)

\* setMinter(newMinter) (lines 49-52)
jstvipSetMinter(c, caller, newMinter) ==
  IF caller \notin c.admins \/ newMinter = ZeroAddress
  THEN Outcome(FALSE, c, 0)
  ELSE Outcome(TRUE, [c EXCEPT !.minters = @ \cup {newMinter}], 0)

\* revokeMinter(oldMinter) (lines 54-56)
jstvipRevokeMinter(c, caller, oldMinter) ==
  IF caller \notin c.admins
  THEN Outcome(FALSE, c, 0)
  ELSE Outcome(TRUE, [c EXCEPT !.minters = @ \ {oldMinter}], 0)

\* ERC721.transferFrom(from, to, tokenId) called by the owner of the token
jstvipTransferFrom(c, caller, to, tokenId) ==
  IF tokenId \notin DOMAIN c.nft.owners \/ c.nft.owners[tokenId] # caller \/ to = ZeroAddress
  THEN Outcome(FALSE, c, 0)
  ELSE Outcome(TRUE, [c EXCEPT !.nft.owners[tokenId] = to], 0)

\* who sends transactions to the contract
JstvipCallers == {JstvipAdmin, JstvipMinter, "0xccc"}

\* `issued` is a ghost field: the ids returned by the successful mints, in
\* the order of the calls
InitJstvip ==
  /\ CtlIdle
  /\ probe = [ c |-> JstvipInit, fn |-> "constructor", caller |-> JstvipAdmin,
               to |-> ZeroAddress, ok |-> TRUE, ret |-> 0, issued |-> <<>>, n |-> 0 ]

\* the transaction `fn` of caller with argument to had outcome r
Mined(fn, caller, to, r) ==
  /\ probe.n < MaxTx
  /\ probe' = [ c |-> r.c, fn |-> fn, caller |-> caller, to |-> to, ok |-> r.ok,
                ret |-> r.ret,
                issued |-> IF fn = "mint" /\ r.ok THEN Append(probe.issued, r.ret)
                           ELSE probe.issued,
                n |-> probe.n + 1 ]
  /\ UNCHANGED ctl

JstvipMintTx ==
  \E caller \in JstvipCallers, to \in Wallets :
    Mined("mint", caller, to, jstvipMint(probe.c, caller, to))

JstvipSetMinterTx ==
  \E caller \in JstvipCallers, to \in {ZeroAddress, "0xccc"} :
    Mined("setMinter", caller, to, jstvipSetMinter(probe.c, caller, to))

JstvipRevokeMinterTx ==
  \E caller \in JstvipCallers :
    Mined("revokeMinter", caller, JstvipMinter, jstvipRevokeMinter(probe.c, caller, JstvipMinter))

JstvipTransferTx ==
  \E caller \in JstvipCallers, to \in {ZeroAddress, "0xaaa"} :
    Mined("transferFrom", caller, to, jstvipTransferFrom(probe.c, caller, to, 1))

NextJstvip ==
  \/ JstvipMintTx
  \/ JstvipSetMinterTx
  \/ JstvipRevokeMinterTx
  \/ JstvipTransferTx

SpecJstvip == InitJstvip /\ [][NextJstvip]_vars

(* ---------------- the PoolSwapExecutor contract on its own ------------ *)

\* constructor (lines 28-31): the pool and the payer the executor is bound to
ExecPool == "0xpool"
ExecPayer == "0xaaa"
ExecSelf == "0xexe"

\* accounts that hold the pool's tokens, and who sends transactions
ExecAccounts == {ExecPayer, "0xbbb", ExecPool}
ExecCallers == {ExecPayer, "0xbbb"}

\* token1 per token0 at the pool's price, which the swaps here do not move
ExecRate == 100

\* the two pool tokens (balances, and what each holder lets the executor
\* spend) and the Swap events the pool has emitted
ExecInit ==
  [ bal0 |-> [a \in ExecAccounts |-> IF a = ExecPool THEN 10 ELSE 3],
    bal1 |-> [a \in ExecAccounts |-> IF a = ExecPool THEN 1000 ELSE 0],
    allow0 |-> [a \in ExecAccounts |-> IF a = ExecPool THEN 0 ELSE 2],
    allow1 |-> [a \in ExecAccounts |-> IF a = ExecPool THEN 0 ELSE 100],
    events |-> <<>> ]

\* IUniswapV3PoolSwap.swap (lines 13-19) as the pool computes it: the
\* deltas (amount0, amount1) of an exact-input swap, positive for what the
\* pool is owed and negative for what it pays out
swapDeltas(zeroForOne, amountSpecified) ==
  IF zeroForOne
  THEN <<amountSpecified, 0 - amountSpecified * ExecRate>>
  ELSE <<0 - (amountSpecified \div ExecRate), amountSpecified>>

\* uniswapV3SwapCallback (lines 44-53) called by msgSender in a transaction
\* started by origin: only the pool may call, and each positive delta is
\* pulled with transferFrom(payer, pool, delta), which reverts on a short
\* balance or allowance
uniswapV3SwapCallback(c, msgSender, origin, amount0Delta, amount1Delta) ==
  LET pay0 == IF amount0Delta > 0 THEN amount0Delta ELSE 0
      pay1 == IF amount1Delta > 0 THEN amount1Delta ELSE 0
  IN IF \/ msgSender # ExecPool
        \/ pay0 > c.bal0[ExecPayer] \/ pay0 > c.allow0[ExecPayer]
        \/ pay1 > c.bal1[ExecPayer] \/ pay1 > c.allow1[ExecPayer]
     THEN Outcome(FALSE, c, 0)
     ELSE Outcome(TRUE,
            [c EXCEPT !.bal0[ExecPayer] = @ - pay0, !.bal0[ExecPool] = @ + pay0,
                      !.allow0[ExecPayer] = @ - pay0,
                      !.bal1[ExecPayer] = @ - pay1, !.bal1[ExecPool] = @ + pay1,
                      !.allow1[ExecPayer] = @ - pay1], 0)

\* pool.swap(recipient, ...) called by the executor in a transaction of
\* origin: the pool pays the negative delta out to recipient, calls the
\* executor back for the positive one and emits Swap(sender, recipient,
\* amount0, amount1)
poolSwap(c, origin, recipient, zeroForOne, amountSpecified) ==
  LET d == swapDeltas(zeroForOne, amountSpecified)
      out0 == IF d[1] < 0 THEN 0 - d[1] ELSE 0
      out1 == IF d[2] < 0 THEN 0 - d[2] ELSE 0
      paid == [c EXCEPT !.bal0[ExecPool] = @ - out0, !.bal0[recipient] = @ + out0,
                        !.bal1[ExecPool] = @ - out1, !.bal1[recipient] = @ + out1]
      back == uniswapV3SwapCallback(paid, ExecPool, origin, d[1], d[2])
  IN IF out0 > c.bal0[ExecPool] \/ out1 > c.bal1[ExecPool] \/ ~back.ok
     THEN Outcome(FALSE, c, 0)
     ELSE Outcome(TRUE,
            [back.c EXCEPT !.events = Append(@, [sender |-> ExecSelf, recipient |-> recipient,
                                                 amount0 |-> d[1], amount1 |-> d[2]])],
            d)

\* an executor that lets anybody swap on the payer's account
executeSwapAnyCaller(c, msgSender, zeroForOne, amountSpecified) ==
  poolSwap(c, msgSender, ExecPayer, zeroForOne, amountSpecified)

\* executeSwap (lines 34-41) called by msgSender
executeSwap(c, msgSender, zeroForOne, amountSpecified) ==
  IF msgSender # ExecPayer
  THEN Outcome(FALSE, c, 0)
  ELSE poolSwap(c, msgSender, ExecPayer, zeroForOne, amountSpecified)

InitExecutor ==
  /\ CtlIdle
  /\ probe = [ c |-> ExecInit, fn |-> "constructor", caller |-> ExecPayer,
               ok |-> TRUE, n |-> 0 ]

ExecMined(fn, caller, r) ==
  /\ probe.n < MaxTx
  /\ probe' = [c |-> r.c, fn |-> fn, caller |-> caller, ok |-> r.ok, n |-> probe.n + 1]
  /\ UNCHANGED ctl

ExecuteSwapTx ==
  \E caller \in ExecCallers, zeroForOne \in BOOLEAN :
    \E amountSpecified \in (IF zeroForOne THEN {1, 2} ELSE {ExecRate}) :
      ExecMined("executeSwap", caller,
                executeSwap(probe.c, caller, zeroForOne, amountSpecified))

\* an account calls the callback itself; the pool calls it only inside swap
CallbackTx ==
  \E caller \in ExecCallers, amount0Delta \in {0 - 1, 1}, amount1Delta \in {0 - ExecRate, ExecRate} :
    ExecMined("uniswapV3SwapCallback", caller,
              uniswapV3SwapCallback(probe.c, caller, caller, amount0Delta, amount1Delta))

NextExecutor ==
  \/ ExecuteSwapTx
  \/ CallbackTx

SpecExecutor == InitExecutor /\ [][NextExecutor]_vars

(* ----------------------- the MyToken contract on its own -------------- *)

\* constructor (lines 95-102): the deployer, who becomes the owner, and
\* initialSupply
TokenDeployer == "0xaaa"
InitialSupply == 3

\* who holds and sends tokens
TokenHolders == {"0xaaa", "0xbbb", "0xccc"}

\* type(uint256).max, with uint256 narrowed to three bits
Uint256Max == 7

\* the token before its constructor has run
TokenBlank ==
  [ balances |-> [a \in TokenHolders |-> 0],
    allowances |-> [a \in TokenHolders |-> [s \in TokenHolders |-> 0]],
    totalSupply |-> 0,
    paused |-> FALSE,
    owner |-> TokenDeployer ]

\* ERC20._update(from, to, value): a mint when from is the zero address,
\* else a debit of from, which reverts on a short balance, and a credit of to
erc20Update(c, from, to, value) ==
  IF from = ZeroAddress
  THEN Outcome(TRUE, [c EXCEPT !.totalSupply = @ + value, !.balances[to] = @ + value], 0)
  ELSE IF c.balances[from] < value
  THEN Outcome(FALSE, c, 0)
  ELSE LET debited == [c EXCEPT !.balances[from] = @ - value]
       IN Outcome(TRUE, [debited EXCEPT !.balances[to] = @ + value], 0)

\* an override that hands the zero address to super._update as `from`
myTokenUpdateMints(c, from, to, amount) ==
  IF c.paused THEN Outcome(FALSE, c, 0) ELSE erc20Update(c, ZeroAddress, to, amount)

\* an override that never calls super._update
myTokenUpdateEmpty(c, from, to, amount) ==
  IF c.paused THEN Outcome(FALSE, c, 0) ELSE Outcome(TRUE, c, 0)

\* an override without the whenNotPaused modifier
myTokenUpdateUnguarded(c, from, to, amount) == erc20Update(c, from, to, amount)

\* MyToken._update (lines 115-121): whenNotPaused, then super._update
myTokenUpdate(c, from, to, amount) ==
  IF c.paused THEN Outcome(FALSE, c, 0) ELSE erc20Update(c, from, to, amount)

\* constructor (lines 95-102): _mint(msg.sender, initialSupply)
TokenInit == myTokenUpdate(TokenBlank, ZeroAddress, TokenDeployer, InitialSupply).c

\* ERC20._transfer: the receiver must not be the zero address
erc20Transfer(c, from, to, value) ==
  IF to = ZeroAddress THEN Outcome(FALSE, c, 0) ELSE myTokenUpdate(c, from, to, value)

\* ERC20.transfer(to, value) called by caller
myTokenTransfer(c, caller, to, value) ==
  LET r == erc20Transfer(c, caller, to, value)
  IN IF r.ok THEN r ELSE Outcome(FALSE, c, 0)

\* ERC20.approve(spender, value) called by caller
myTokenApprove(c, caller, spender, value) ==
  IF spender = ZeroAddress THEN Outcome(FALSE, c, 0)
  ELSE Outcome(TRUE, [c EXCEPT !.allowances[caller][spender] = value], 0)

\* ERC20._spendAllowance: an allowance of type(uint256).max is not spent
erc20SpendAllowance(c, owner, spender, value) ==
  LET current == c.allowances[owner][spender]
  IN IF current = Uint256Max THEN Outcome(TRUE, c, 0)
     ELSE IF current < value THEN Outcome(FALSE, c, 0)
     ELSE Outcome(TRUE, [c EXCEPT !.allowances[owner][spender] = current - value], 0)

\* ERC20.transferFrom(from, to, value) called by caller
myTokenTransferFrom(c, caller, from, to, value) ==
  LET spent == erc20SpendAllowance(c, from, caller, value)
      moved == erc20Transfer(spent.c, from, to, value)
  IN IF spent.ok /\ moved.ok THEN moved ELSE Outcome(FALSE, c, 0)

\* pause() (lines 105-107): onlyOwner, and Pausable's whenNotPaused
myTokenPause(c, caller) ==
  IF caller # c.owner \/ c.paused THEN Outcome(FALSE, c, 0)
  ELSE Outcome(TRUE, [c EXCEPT !.paused = TRUE], 0)

\* unpause() (lines 109-111): onlyOwner, and Pausable's whenPaused
myTokenUnpause(c, caller) ==
  IF caller # c.owner \/ ~c.paused THEN Outcome(FALSE, c, 0)
  ELSE Outcome(TRUE, [c EXCEPT !.paused = FALSE], 0)

\* the values of the calls: nothing, amounts up to and above the supply
TokenValues == {0, 1, InitialSupply, InitialSupply + 1}

InitToken ==
  /\ CtlIdle
  /\ probe = [ c |-> TokenInit, fn |-> "constructor", caller |-> TokenDeployer,
               from |-> ZeroAddress, to |-> TokenDeployer, value |-> InitialSupply,
               ok |-> TRUE, n |-> 0 ]

\* the transaction fn(from, to, value) of caller had outcome r
TokenMined(fn, caller, from, to, value, r) ==
  /\ probe.n < MaxTx
  /\ probe' = [ c |-> r.c, fn |-> fn, caller |-> caller, from |-> from, to |-> to,
                value |-> value, ok |-> r.ok, n |-> probe.n + 1 ]
  /\ UNCHANGED ctl

TokenTransferTx ==
  \E caller \in {"0xaaa", "0xbbb"}, to \in {"0xaaa", "0xbbb", ZeroAddress}, value \in TokenValues :
    TokenMined("transfer", caller, caller, to, value,
               myTokenTransfer(probe.c, caller, to, value))

TokenApproveTx ==
  \E value \in {1, InitialSupply + 1, Uint256Max} :
    TokenMined("approve", "0xaaa", "0xaaa", "0xbbb", value,
               myTokenApprove(probe.c, "0xaaa", "0xbbb", value))

TokenTransferFromTx ==
  \E caller \in {"0xbbb", "0xccc"}, to \in {"0xbbb", "0xccc"}, value \in TokenValues :
    TokenMined("transferFrom", caller, "0xaaa", to, value,
               myTokenTransferFrom(probe.c, caller, "0xaaa", to, value))

TokenPauseTx ==
  \E caller \in {"0xaaa", "0xbbb"} :
    TokenMined("pause", caller, caller, ZeroAddress, 0, myTokenPause(probe.c, caller))

TokenUnpauseTx ==
  \E caller \in {"0xaaa", "0xbbb"} :
    TokenMined("unpause", caller, caller, ZeroAddress, 0, myTokenUnpause(probe.c, caller))

NextToken ==
  \/ TokenTransferTx
  \/ TokenApproveTx
  \/ TokenTransferFromTx
  \/ TokenPauseTx
  \/ TokenUnpauseTx

SpecToken == InitToken /\ [][NextToken]_vars

(* ------------------ loadState and saveState on their own -------------- *)

\* a JavaScript value with its typeof; null is an "object" that is falsy
JsUndefined ==
  [t |-> "undefined", null |-> FALSE, n |-> 0, s |-> <<>>, b |-> FALSE, m |-> EmptyMap]
JsNumber(n) == [JsUndefined EXCEPT !.t = "number", !.n = n]
JsString(s) == [JsUndefined EXCEPT !.t = "string", !.s = s]
JsBoolean(b) == [JsUndefined EXCEPT !.t = "boolean", !.b = b]
JsObject(m) == [JsUndefined EXCEPT !.t = "object", !.m = m]
JsNull == [JsUndefined EXCEPT !.t = "object", !.null = TRUE]

typeof(x) == x.t

\* s.k, for an s that is not null: undefined when s has no such member
member(s, k) ==
  IF typeof(s) = "object" /\ k \in DOMAIN s.m THEN s.m[k] ELSE JsUndefined

\* STATE_FILE: missing, or a text that is not JSON, or a JSON document
MissingFile == [exists |-> FALSE, json |-> FALSE, doc |-> JsUndefined]
UnparseableFile == [exists |-> TRUE, json |-> FALSE, doc |-> JsUndefined]
JsonFile(doc) == [exists |-> TRUE, json |-> TRUE, doc |-> doc]

\* lines 101-109: the object of the catch block
DefaultState ==
  [ lastProcessedTransferBlock |-> JsNumber(0),
    lastProcessedSwapBlock |-> JsNumber(0),
    cumulativeBuys |-> JsObject(EmptyMap),
    mintedCache |-> JsObject(EmptyMap),
    mintFailures |-> JsObject(EmptyMap) ]

\* lines 88-97: `typeof x === "object" && x ? x : {}`
objectOrEmpty(x) == IF typeof(x) = "object" /\ ~x.null THEN x ELSE JsObject(EmptyMap)

\* a migration that takes the old lastProcessedBlock for both cursors
migratedLegacyBoth(s) ==
  LET old == member(s, "lastProcessedBlock")
      legacy == IF typeof(old) = "number" THEN old ELSE JsNumber(0)
  IN [ lastProcessedTransferBlock |->
         IF typeof(member(s, "lastProcessedTransferBlock")) = "number"
         THEN member(s, "lastProcessedTransferBlock") ELSE legacy,
       lastProcessedSwapBlock |->
         IF typeof(member(s, "lastProcessedSwapBlock")) = "number"
         THEN member(s, "lastProcessedSwapBlock") ELSE legacy,
       cumulativeBuys |-> objectOrEmpty(member(s, "cumulativeBuys")),
       mintedCache |-> objectOrEmpty(member(s, "mintedCache")),
       mintFailures |-> objectOrEmpty(member(s, "mintFailures")) ]

\* lines 76-98: the object `migrated`, built from the parsed document s
migrated(s) ==
  [ lastProcessedTransferBlock |->
      IF typeof(member(s, "lastProcessedTransferBlock")) = "number"
      THEN member(s, "lastProcessedTransferBlock")
      ELSE IF typeof(member(s, "lastProcessedBlock")) = "number"
      THEN member(s, "lastProcessedBlock")
      ELSE JsNumber(0),
    lastProcessedSwapBlock |->
      IF typeof(member(s, "lastProcessedSwapBlock")) = "number"
      THEN member(s, "lastProcessedSwapBlock")
      ELSE JsNumber(0),
    cumulativeBuys |-> objectOrEmpty(member(s, "cumulativeBuys")),
    mintedCache |-> objectOrEmpty(member(s, "mintedCache")),
    mintFailures |-> objectOrEmpty(member(s, "mintFailures")) ]

\* loadState (lines 68-110) on the file as it is on disk: readFileSync
\* throws on a missing file, JSON.parse on a text that is not JSON, and the
\* first member access on a document that is null; the catch block answers
loadStateFile(f) ==
  IF ~f.exists \/ ~f.json \/ f.doc.null THEN DefaultState ELSE migrated(f.doc)

\* saveState (lines 112-114): JSON.stringify of the state object, whose
\* members are numbers, strings, booleans and plain objects of them
saveStateFile(s) == JsonFile(JsObject(s))

\* what is written into the state object: cursors, volumes as decimal
\* strings (one beyond 2^53), the cache flag, failure timestamps
CursorValues == {JsNumber(n) : n \in 0 .. 2}
VolumeValues ==
  { JsString(<<5>>), JsString(<<1, 0, 0, 0>>),
    JsString(<<9, 0, 0, 7, 1, 9, 9, 2, 5, 4, 7, 4, 0, 9, 9, 3>>) }
FailureValues == {JsString(DecStr(1)), JsString(DecStr(MaxTime))}
StateWallets == {"0xaaa", "0xbbb"}

\* documents the controller did not write: older layouts and damaged ones
ForeignFiles ==
  { MissingFile, UnparseableFile, JsonFile(JsNull), JsonFile(JsNumber(5)),
    JsonFile(JsObject(EmptyMap)),
    JsonFile(JsObject([lastProcessedBlock |-> JsNumber(2)])),
    JsonFile(JsObject([lastProcessedBlock |-> JsNumber(2),
                       lastProcessedTransferBlock |-> JsNumber(1)])),
    JsonFile(JsObject([lastProcessedBlock |-> JsNumber(2),
                       lastProcessedSwapBlock |-> JsNumber(1)])),
    JsonFile(JsObject([lastProcessedBlock |-> JsString(<<2>>),
                       lastProcessedSwapBlock |-> JsString(<<1>>),
                       cumulativeBuys |-> JsNull,
                       mintedCache |-> JsBoolean(TRUE),
                       mintFailures |-> JsNumber(1)])) }

InitStateFile ==
  /\ CtlIdle
  /\ probe = [ fn |-> "none", mem |-> DefaultState, disk |-> MissingFile,
               loaded |-> DefaultState, n |-> 0 ]

\* an assignment to a member of the state object, as the passes make them
StateEdit ==
  /\ probe.n < MaxEdits
  /\ \E s \in
        {[probe.mem EXCEPT !.lastProcessedSwapBlock = c] : c \in CursorValues}
        \cup {[probe.mem EXCEPT !.lastProcessedTransferBlock = c] : c \in CursorValues}
        \cup {[probe.mem EXCEPT !.cumulativeBuys = JsObject(Put(@.m, w, x))] :
                w \in StateWallets, x \in VolumeValues}
        \cup {[probe.mem EXCEPT !.mintedCache = JsObject(Put(@.m, w, JsBoolean(TRUE)))] :
                w \in StateWallets}
        \cup {[probe.mem EXCEPT !.mintedCache = JsObject(Del(@.m, w))] : w \in StateWallets}
        \cup {[probe.mem EXCEPT !.mintFailures = JsObject(Put(@.m, w, x))] :
                w \in StateWallets, x \in FailureValues} :
       probe' = [probe EXCEPT !.fn = "edit", !.mem = s, !.n = @ + 1]
  /\ UNCHANGED ctl

\* saveState(STATE_FILE, state), then loadState(STATE_FILE)
SaveThenLoad ==
  /\ probe.n < MaxEdits
  /\ LET f == saveStateFile(probe.mem)
     IN probe' = [probe EXCEPT !.fn = "saveLoad", !.disk = f,
                               !.loaded = loadStateFile(f), !.n = @ + 1]
  /\ UNCHANGED ctl

\* loadState(STATE_FILE) of a file the controller did not write
LoadForeign ==
  /\ probe.n < MaxEdits
  /\ \E f \in ForeignFiles :
       probe' = [probe EXCEPT !.fn = "load", !.disk = f,
                              !.loaded = loadStateFile(f), !.n = @ + 1]
  /\ UNCHANGED ctl

NextStateFile ==
  \/ StateEdit
  \/ SaveThenLoad
  \/ LoadForeign

SpecStateFile == InitStateFile /\ [][NextStateFile]_vars

(* ---------------------- the range fetchers on their own --------------- *)

\* querySwapLogs and queryTransferLogs of the swaps controller, and
\* queryTransferLogs of the balance-based controller
Fetchers == {"querySwapLogs", "queryTransferLogs", "balance.queryTransferLogs"}

\* a call fetcher(fromBlock, toBlock) at its first queryFilter
fetcherCall(kind, fromBlock, toBlock) ==
  [ kind |-> kind, fromBlock |-> fromBlock, toBlock |-> toBlock,
    start |-> fromBlock, end |-> toBlock, retrying |-> FALSE,
    status |-> "calling", last |-> "none", calls |-> 0, limited |-> 0 ]

\* a catch block that keeps the range and asks again
sameRange(f) == [f EXCEPT !.status = "calling"]

\* `end = start + Math.floor((end - start) / 2)`, and the loop goes round
shrunk(f) == [f EXCEPT !.end = f.start + ((f.end - f.start) \div 2)]

\* swaps controller, lines 432-436 and 377-380: a single block rethrows,
\* a longer range is cut to its lower half, whatever the error is
onErrorSwaps(f, e) ==
  IF f.start = f.end THEN [f EXCEPT !.status = "thrown"] ELSE shrunk(f)

\* balance-based controller, lines 226-257: the rate limit retries the same
\* range after a sleep; a single block is asked once more, and the second
\* rejection is rethrown; a longer range is cut to its lower half
onErrorBalance(f, e) ==
  IF f.retrying THEN [f EXCEPT !.status = "thrown"]
  ELSE IF e = "rate limited" THEN f
  ELSE IF f.start = f.end THEN [f EXCEPT !.retrying = TRUE]
  ELSE shrunk(f)

onError(f, e) ==
  IF f.kind = "balance.queryTransferLogs" THEN onErrorBalance(f, e) ELSE onErrorSwaps(f, e)

InitFetcher ==
  /\ CtlIdle
  /\ \E kind \in Fetchers, fromBlock \in 1 .. MaxHeight :
       \E toBlock \in fromBlock .. MaxHeight :
         probe = fetcherCall(kind, fromBlock, toBlock)

\* queryFilter(filter, start, end) resolves with the logs
FetcherAnswered ==
  /\ probe.status = "calling"
  /\ probe' = [probe EXCEPT !.status = "returned", !.last = "ok", !.calls = @ + 1]
  /\ UNCHANGED ctl

\* queryFilter(filter, start, end) rejects with e
FetcherRejected ==
  /\ probe.status = "calling"
  /\ \E e \in ProviderErrors :
       /\ e = "rate limited" => probe.limited < MaxRateLimits
       /\ probe' = [onError(probe, e) EXCEPT
                      !.last = e, !.calls = @ + 1,
                      !.limited = IF e = "rate limited" THEN @ + 1 ELSE @]
  /\ UNCHANGED ctl

NextFetcher ==
  \/ FetcherAnswered
  \/ FetcherRejected

\* the provider answers every request, one way or the other
SpecFetcher == InitFetcher /\ [][NextFetcher]_vars /\ WF_vars(NextFetcher)

TypeOK ==
  /\ height \in 0..MaxHeight
  /\ now \in 1..MaxTime
  /\ phase \in {"down", "startup", "listening", "exited"}

(* ============================== claims =============================== *)

\* the persisted swap cursor and the cumulative volume of a wallet
FileCursor == file[1].lastProcessedSwapBlock
CumOf(s, w) == parseBigintSafe(Get(s.cumulativeBuys, w))
Bought(k) == getTokenBoughtFromSwap(ChainLog[k].amount0, ChainLog[k].amount1)
IsPurchase(k) == ChainLog[k].amount1 < 0
TokensOf(w) == {id \in DOMAIN nft.owners : nft.owners[id] = w}

RECURSIVE SumBought(_)
SumBought(K) ==
  IF K = {} THEN 0
  ELSE LET k == CHOOSE x \in K : TRUE IN (0 - ChainLog[k].amount1) + SumBought(K \ {k})

\* C1: for every wallet the reward ledger holds at most one identifier, and
\* once hasMinted(w) is true it stays true and no further identifier is
\* issued to w, whatever the controller does (swaps, retries, restarts).
C1_AtMostOneIssuance ==
  /\ [](\A w \in Wallets : Cardinality(TokensOf(w)) <= 1)
  /\ [][\A w \in Wallets :
          nft.hasMinted[w] =>
            /\ nft'.hasMinted[w]
            /\ {id \in DOMAIN nft'.owners : nft'.owners[id] = w} = TokensOf(w)]_vars

\* C1 witness: a second mint(0xAAA) is in flight although the ledger has
\* already issued to 0xAAA
C1_Witness ==
  /\ nft.hasMinted["0xaaa"]
  /\ Cardinality(TokensOf("0xaaa")) = 1
  /\ \E p \in Passes : p.pc = "mint" /\ toLowerAddr(buyerOf(p)) = "0xaaa"

\* C2: whenever the persisted swap cursor equals c, every purchase in a
\* block b with startCursor < b <= c has been folded into the persisted
\* wallet ledger (the start cursor of the young chain of the model is 0).
C2_CursorCoversFolded ==
  file # NoFile =>
    \A k \in EventKeys :
      (IsPurchase(k) /\ 0 < ChainLog[k].block /\ ChainLog[k].block <= FileCursor)
        => file[1].folds[k] >= 1

\* C3: the cumulative bought volume of every wallet, in memory and in the
\* state file, is the sum of the purchased quantities of the distinct swap
\* events folded, each counted once.
NoDoubleCount(s) ==
  \A w \in Wallets :
    CumOf(s, w) = SumBought({k \in EventKeys : IsPurchase(k) /\ s.folds[k] >= 1
                                               /\ toLowerAddr(ChainLog[k].recipient) = w})

C3_NoDoubleCount ==
  /\ phase # "down" => NoDoubleCount(state)
  /\ file # NoFile => NoDoubleCount(file[1])

\* C4: the swap cursor never decreases and never exceeds
\* currentHeight - confirmationDepth.
C4_MonotonicCursor ==
  /\ [](file # NoFile => FileCursor <= height - confirmations)
  /\ [][(file # NoFile /\ file' # NoFile) =>
          file'[1].lastProcessedSwapBlock >= FileCursor]_vars

\* C5: at most one backfill pass is in flight at any time.
C5_SinglePass == InFlight <= 1

\* C6: the logs a successful querySwapLogs(from, to) returned to the pass
\* are the events of every block of [from, to], in (block, log index) order.
C6_FetchComplete ==
  \A p \in Passes :
    p.pc \in {"hasMintedCache", "hasMinted", "mint"} => p.logs = queryFilter(p.from, p.to)

(* --- observing the Mint Gate in a step ------------------------------- *)

\* the purchases whose Mint Gate evaluation started in this step: the gate
\* is invoked exactly when a purchase has been added to the ledger
Evaluated ==
  IF phase # "down" /\ phase' # "down"
  THEN {k \in EventKeys : state'.folds[k] > state.folds[k]}
  ELSE {}

\* a pass arrived at q in this step
Arrived(q) == CopiesIn(q, pass') > CopiesIn(q, pass)
\* a pass left p in this step
Left(p) == CopiesIn(p, pass') < CopiesIn(p, pass)

\* the evaluation of purchase k went on to call hasMinted
Proceeded(k) ==
  \E q \in BagToSet(pass') :
    /\ q.pc \in {"hasMintedCache", "hasMinted"}
    /\ q.logs[q.pos] = k
    /\ Arrived(q)

EligibleWallet(w) ==
  /\ w # ZeroAddress
  /\ isAddress(w)
  /\ cohortBucket(w, cohortSalt) < cohortEligiblePercent

FailureOf(s, wl) == ParseDec(s.mintFailures[wl])
CoolingDown(s, wl, t) ==
  wl \in DOMAIN s.mintFailures /\ t - FailureOf(s, wl) < mintFailureCooldownMs
CooldownOver(s, wl, t) ==
  wl \in DOMAIN s.mintFailures /\ t - FailureOf(s, wl) >= mintFailureCooldownMs

\* C7: an evaluation goes on to the ledger only for a valid, non-zero,
\* cohort-eligible wallet that is not in cooldown, and mint(w) is submitted
\* only by an evaluation that was waiting for the authoritative hasMinted(w),
\* which returns false, with the cumulative volume of w >= threshold; and
\* an evaluation that gets false with the volume >= threshold does submit
\* (threshold 1000: none at 600, one at 600 + 500).
C7_MintOnlyWhenEligible ==
  [][ /\ \A k \in Evaluated :
           Proceeded(k) =>
             /\ EligibleWallet(ChainLog[k].recipient)
             /\ ~CoolingDown(state', toLowerAddr(ChainLog[k].recipient), now)
      /\ \A q \in BagToSet(pass') :
           (q.pc = "mint" /\ Arrived(q)) =>
             /\ Left([q EXCEPT !.pc = "hasMinted"])
             /\ ~nft.hasMinted[toLowerAddr(buyerOf(q))]
             /\ CumOf(state', toLowerAddr(buyerOf(q))) >= threshold
             /\ EligibleWallet(buyerOf(q))
      /\ \A p \in Passes :
           ( /\ p.pc = "hasMinted" /\ Left(p) /\ phase' # "down"
             /\ ~nft.hasMinted[toLowerAddr(buyerOf(p))]
             /\ CumOf(state, toLowerAddr(buyerOf(p))) >= threshold )
           => Arrived([p EXCEPT !.pc = "mint"])
    ]_vars

\* C7 witness: 0xAAA bought 600 then 500 and mint(0xAAA) has been submitted
C7_Witness ==
  /\ phase # "down"
  /\ state.folds[1] = 1 /\ state.folds[3] = 1 /\ state.folds[5] = 0
  /\ CumOf(state, "0xaaa") = 1100
  /\ \E p \in Passes : p.pc = "mint" /\ buyerOf(p) = "0xAAA" /\ p.logs[p.pos] = 3

\* C8: the minted-cache alone never decides, in the swap-driven gate and in
\* the legacy transfer-driven gate: every return of a gate that passes a
\* wallet over as already minted comes after a read of hasMinted(w) in the
\* same evaluation, and mint(w) is submitted only by an evaluation whose
\* read of hasMinted(w) returned false.
C8_CacheNeverDecides ==
  /\ [](phase # "down" => \A r \in state.skips : r.read)
  /\ [][\A q \in BagToSet(pass') :
          /\ (q.pc = "mint" /\ Arrived(q)) =>
               /\ Left([q EXCEPT !.pc = "hasMinted"])
               /\ ~nft.hasMinted[toLowerAddr(buyerOf(q))]
          /\ (q.pc = "transfers.mint" /\ Arrived(q)) =>
               Left([q EXCEPT !.pc = "transfers.balanceOf"])
          /\ (q.pc = "transfers.balanceOf" /\ Arrived(q)) =>
               /\ Left([q EXCEPT !.pc = "transfers.hasMinted"])
               /\ ~nft.hasMinted[toLowerAddr(toOf(q))]]_vars

\* C9: an evaluation of a wallet whose last failure is less than the
\* cooldown ago calls neither hasMinted nor mint (it returns at once), and
\* an evaluation at or after the expiry goes on to the authoritative check.
C9_CooldownSuppression ==
  [][ \A k \in Evaluated :
        LET wl == toLowerAddr(ChainLog[k].recipient)
        IN /\ CoolingDown(state', wl, now) =>
                /\ ~Proceeded(k)
                /\ \A q \in BagToSet(pass') :
                     (q.pc = "mint" /\ Arrived(q)) => q.logs[q.pos] # k
           /\ CooldownOver(state', wl, now) => Proceeded(k)
    ]_vars

\* C9 witness: the mint for 0xAAA's second purchase failed at f, and the
\* evaluation of its third purchase (event 5) returned while now - f < cooldown
C9_Witness ==
  /\ phase # "down" /\ crashes = 0
  /\ "0xaaa" \in DOMAIN state.mintFailures
  /\ FailureOf(state, "0xaaa") <= mintFailureCooldownMs
  /\ now - FailureOf(state, "0xaaa") < mintFailureCooldownMs
  /\ ~nft.hasMinted["0xaaa"]
  /\ state.folds[1] = 1 /\ state.folds[3] = 1 /\ state.folds[5] = 1
  /\ \A p \in Passes : p.pc \in {"hasMintedCache", "hasMinted", "mint"} => p.logs[p.pos] # 5

\* C10: when a mint call fails the failure time is recorded and persisted;
\* under the tolerant policy the pass goes on: the following events of the
\* chunk are folded up to the next ledger call or to the end of the chunk,
\* where the cursor is set to the chunk's upper bound and persisted; under
\* the strict policy the pass ends with the cursor and the ledger as they
\* were, no further event folded.
C10_FailurePolicy ==
  [][ \A p \in Passes :
        (p.pc = "mint" /\ (MintFailed(p) \/ MintUnconfirmed(p))) =>
          LET wl == toLowerAddr(buyerOf(p))
              FoldedTo(hi) ==
                \A j \in (p.pos + 1)..hi :
                  IsPurchase(p.logs[j]) => state'.folds[p.logs[j]] = state.folds[p.logs[j]] + 1
          IN /\ file' # NoFile
             /\ wl \in DOMAIN file'[1].mintFailures
             /\ FailureOf(file'[1], wl) = now
             /\ IF throwOnMintFailure
                THEN /\ Left(p)
                     /\ BagCardinality(pass') < BagCardinality(pass)
                     /\ file'[1].lastProcessedSwapBlock = FileCursor
                     /\ file'[1].folds = state.folds
                     /\ file'[1].cumulativeBuys = state.cumulativeBuys
                ELSE /\ phase' # "down"
                     /\ \/ \E q \in BagToSet(pass') :
                             /\ Arrived(q)
                             /\ q.pc \in {"hasMintedCache", "hasMinted"}
                             /\ q.from = p.from /\ q.to = p.to /\ q.logs = p.logs
                             /\ q.pos > p.pos
                             /\ FoldedTo(q.pos)
                        \/ /\ FoldedTo(Len(p.logs))
                           /\ state'.lastProcessedSwapBlock = p.to
                           /\ file' = saveState(state')
    ]_vars

\* C10 witness: tolerant policy, the mint for 0xAAA's second purchase
\* failed, 0xBBB's purchase after it was folded and the cursor is at the
\* upper bound 2 of the chunk
C10_Witness ==
  /\ ~throwOnMintFailure /\ crashes = 0
  /\ file # NoFile
  /\ "0xaaa" \in DOMAIN file[1].mintFailures
  /\ ~nft.hasMinted["0xaaa"]
  /\ FileCursor = 2
  /\ file[1].folds = <<1, 0, 1, 1, 0, 0>>

\* C11: when the fetcher fails on a single-block range the pass aborts: the
\* pass is gone (the process, when it was the startup pass), nothing of the
\* state file changes, so the persisted cursor and wallet ledger are those
\* of the last chunk that was written, and the in-memory state is untouched;
\* and every pass that requests a chunk afresh requests it from the
\* persisted cursor + 1.
C11_SingleBlockFailureAborts ==
  [][ /\ \A p \in Passes :
           (p.from = p.end /\ QueryFail(p)) =>
             /\ file' = file
             /\ CopiesIn(p, pass') < CopiesIn(p, pass)
             /\ BagCardinality(pass') < BagCardinality(pass)
             /\ IF phase = "startup"
                THEN phase' = "down"
                ELSE phase' = phase /\ state' = state
      /\ \A q \in BagToSet(pass') :
           (q.pc = "query" /\ q.end = q.to /\ Arrived(q)) =>
             q.from = file'[1].lastProcessedSwapBlock + 1 ]_vars

\* C11 witness: the startup pass wrote the cursor of chunk [1,2], then the
\* fetch of block 3 failed and the process exited; no mint had failed
C11_Witness ==
  /\ phase = "down"
  /\ crashes = 0
  /\ file # NoFile
  /\ FileCursor = 2
  /\ file[1].mintFailures = EmptyMap
  /\ height >= 5

\* C12: folding a swap adds exactly |d| to the cumulative volume stored under
\* the lower-cased recipient when the tracked asset's delta d is negative,
\* and changes no entry otherwise; no other wallet's entry changes, and the
\* sender and the other asset's delta play no part.
TrackedDelta == IF probe.is0 THEN probe.log.amount0 ELSE probe.log.amount1
VolumeIn(m, w) == IF w \in DOMAIN m THEN ParseDec(m[w]) ELSE 0

C12_FoldAddsPurchase ==
  probe.n > 0 =>
    /\ DOMAIN probe.after \subseteq Wallets
    /\ \A w \in Wallets \cup {"0xAAA", "0xBBB"} :
         VolumeIn(probe.after, w) =
           VolumeIn(probe.before, w)
           + (IF w = toLowerAddr(probe.log.recipient) /\ TrackedDelta < 0
              THEN 0 - TrackedDelta ELSE 0)

\* C12 witness: the tracked asset is the second one, 0xAAA held 500 and a
\* swap with delta -500 to 0xAAA is folded: 1000
C12_Witness ==
  /\ probe.n = MaxFolds
  /\ ~probe.is0
  /\ probe.log.recipient = "0xAAA"
  /\ probe.log.amount1 = 0 - 500
  /\ VolumeIn(probe.before, "0xaaa") = 500
  /\ VolumeIn(probe.after, "0xaaa") = 1000

\* C13: with gating enabled a wallet is eligible exactly when its bucket is
\* below the eligible percent (so none at <= 0 and all at >= 100), with
\* gating disabled every wallet is; and for a wallet of the control cohort
\* no evaluation ever reaches hasMinted or mint and the ledger never issues
\* to it, whatever its volume.
ControlCohort(w) ==
  cohortEnabled /\ ~(cohortBucket(w, cohortSalt) < cohortEligiblePercent)

C13_CohortGate ==
  /\ [](\A a \in {AddrA, AddrB, AddrC, "0xaaa"} :
          LET bucket == cohortBucket(a, cohortSalt)
          IN /\ isInEligibleCohort(a, cohortEnabled, cohortEligiblePercent, cohortSalt)
                  <=> (cohortEnabled => bucket < cohortEligiblePercent)
             /\ \A pct \in CohortPercents :
                  /\ isInEligibleCohort(a, FALSE, pct, cohortSalt)
                  /\ isInEligibleCohort(a, TRUE, pct, cohortSalt) <=> bucket < pct
                  /\ pct <= 0 => ~isInEligibleCohort(a, TRUE, pct, cohortSalt)
                  /\ pct >= 100 => isInEligibleCohort(a, TRUE, pct, cohortSalt))
  /\ [](\A w \in Wallets : ControlCohort(w) => ~nft.hasMinted[w])
  /\ [][\A q \in BagToSet(pass') :
          (q.pc \in {"hasMintedCache", "hasMinted", "mint"} /\ Arrived(q))
            => ~ControlCohort(buyerOf(q))]_vars

\* C13 witness: 0xBBB is in the control cohort (bucket 90, 50 percent
\* eligible), its purchase of 1000 = threshold is folded and persisted, and
\* the ledger has not issued to it
C13_Witness ==
  /\ ControlCohort("0xbbb")
  /\ cohortEligiblePercent = DefaultEligiblePercent
  /\ file # NoFile
  /\ FileCursor >= 2
  /\ CumOf(file[1], "0xbbb") >= threshold
  /\ ~nft.hasMinted["0xbbb"]

\* C14: the bucket is in 0..99, a call returns what the first call for the
\* same lower-cased address and salt returned, whatever the casing, and the
\* bucket of the swap controller (8 hex digits after the 0x) equals the
\* bucket of the balance-based controller (the 0x and 8 hex digits).
C14_BucketDeterministic ==
  probe.n > 0 =>
    /\ probe.swaps \in 0..99
    /\ probe.swaps = probe.balanceBased
    /\ probe.swaps = probe.seen[<<toLowerAddr(probe.address), probe.salt>>].bucket
    /\ \A a \in CohortAddresses, s \in CohortSalts :
         /\ cohortBucket(a, s) = cohortBucket(toLowerAddr(a), s)
         /\ cohortBucketBalanceBased(a, s) = cohortBucket(a, s)

\* C14 witness: the bucket of 0xaaa was computed first, then asked again
\* as 0xAAA: 10 both times and in both controllers
C14_Witness ==
  /\ probe.n = 2
  /\ probe.address = "0xAAA"
  /\ probe.salt = "salt"
  /\ probe.seen[<<"0xaaa", "salt">>] = [bucket |-> 10, address |-> "0xaaa"]
  /\ probe.swaps = 10
  /\ probe.balanceBased = 10

\* C16: when the cache says minted and hasMinted(w) returns false, the entry
\* is deleted from the state and from the state file and the same
\* evaluation goes on to the authoritative check; and when that check
\* returns false with the volume at or above the threshold, mint(w) is
\* submitted.
C16_StaleCacheRepaired ==
  [][\A p \in Passes :
       /\ (p.pc = "hasMintedCache" /\ HasMintedCacheCheck(p)
             /\ ~nft.hasMinted[toLowerAddr(buyerOf(p))]) =>
            /\ toLowerAddr(buyerOf(p)) \notin DOMAIN state'.mintedCache
            /\ toLowerAddr(buyerOf(p)) \notin DOMAIN file'[1].mintedCache
            /\ Arrived([p EXCEPT !.pc = "hasMinted"])
       /\ (p.pc = "hasMinted" /\ HasMintedCheck(p)
             /\ ~nft.hasMinted[toLowerAddr(buyerOf(p))]
             /\ CumOf(state, toLowerAddr(buyerOf(p))) >= threshold) =>
            Arrived([p EXCEPT !.pc = "mint"])]_vars

\* C16 witness: the wrong entry of 0xaaa is gone from the state file and
\* mint(0xAAA) has been submitted
C16_Witness ==
  /\ file # NoFile
  /\ ~cached(file[1], "0xaaa")
  /\ ~nft.hasMinted["0xaaa"]
  /\ \E p \in Passes : p.pc = "mint" /\ toLowerAddr(buyerOf(p)) = "0xaaa"

\* the pass p threw in this step
Threw(p) ==
  \/ p.pc = "query" /\ p.from = p.end /\ QueryFail(p)
  \/ p.pc = "mint" /\ throwOnMintFailure /\ (MintFailed(p) \/ MintUnconfirmed(p))

\* the pass p, which had blocks to process, returned in this step
Returned(p) ==
  /\ p.pc # "getBlock"
  /\ Left(p)
  /\ BagCardinality(pass') < BagCardinality(pass)
  /\ ~Threw(p)

\* C17: every chunk a pass requests starts right after the persisted cursor,
\* ends at most chunkSize - 1 blocks later and not beyond the target, so the
\* chunks are contiguous and ascending and the cursor of a chunk is in the
\* state file before the next chunk is requested; and when a pass returns,
\* the persisted cursor is the target it computed at its start.
C17_ChunkedProgress ==
  [][ /\ \A q \in BagToSet(pass') :
           (q.pc = "query" /\ q.end = q.to /\ Arrived(q)) =>
             /\ q.from = file'[1].lastProcessedSwapBlock + 1
             /\ q.from <= q.to
             /\ q.to <= q.target
             /\ q.to - q.from + 1 <= chunkSize
             /\ q.to = q.target \/ q.to - q.from + 1 = chunkSize
      /\ \A p \in Passes :
           (Returned(p) /\ phase' # "down") =>
             /\ file'[1].lastProcessedSwapBlock = p.target
             /\ state'.lastProcessedSwapBlock = p.target ]_vars

\* C17 witness: with target 3 and chunkSize 2 the pass has written cursor 2
\* for chunk [1,2] and is requesting chunk [3,3]
C17_Witness ==
  /\ file # NoFile
  /\ FileCursor = 2
  /\ \E p \in Passes : p.pc = "query" /\ p.from = 3 /\ p.to = 3 /\ p.target = 3

\* C18: a pass whose getBlockNumber answers a height with
\* height - confirmations <= cursor returns at once: no pass arrives at a
\* log request, a hasMinted or a mint, and the state (cursor and wallet
\* ledger), the state file and the reward ledger are unchanged.
C18_NoOpPass ==
  [][\A p \in Passes :
       (p.pc = "getBlock" /\ GetBlockNumber(p)
          /\ height - confirmations <= state.lastProcessedSwapBlock) =>
         /\ state' = state
         /\ file' = file
         /\ nft' = nft
         /\ pass' = Remove(p)
         /\ \A q \in BagToSet(pass') : ~Arrived(q)]_vars

\* C18 witness: the startup pass ran at height 2 with cursor 0 (target 0)
\* and returned; the block handler is registered and nothing was written
C18_Witness ==
  /\ phase = "listening"
  /\ height = confirmations
  /\ pass = NoPass
  /\ file = saveState(state)
  /\ state.lastProcessedSwapBlock = 0
  /\ state.cumulativeBuys = EmptyMap

\* C20: when queryFilter rejects with the provider's rate-limit error the
\* fetcher asks again for the identical [start, end]: the pass is still
\* waiting for the same range and nothing else has changed; for the
\* swap-log fetcher and for the transfer-log fetcher.
C20_RateLimitRetriesSameRange ==
  [][\A p \in Passes :
       ((p.pc = "query" /\ QueryFailWith(p, "rate limited"))
          \/ (p.pc = "transfers.query" /\ TransfersQueryFailWith(p, "rate limited"))) =>
         /\ pass' = pass
         /\ state' = state
         /\ file' = file
         /\ phase' = phase]_vars

\* the ledger has confirmed the mint the pass p was attempting and the
\* controller leaves the attempt in this step
MintAttemptConfirmed(p) ==
  \/ p.pc = "mint" /\ ~sqliteDb.open /\ MintConfirmed(p)
  \/ p.pc = "insertMint" /\ (InsertMintOk(p) \/ InsertMintFail(p))

\* mint(w) or tx.wait() rejected
MintAttemptFailed(p) ==
  p.pc = "mint" /\ (MintFailed(p) \/ MintUnconfirmed(p))

\* C15: when the mint of a wallet is confirmed, its minted-cache entry is
\* set and its failure marker removed; when the mint call fails its failure
\* time is set and the minted-cache is not; and the state file holds the
\* change at the end of the step, before any later event is folded.
C15_MintOutcomeRecorded ==
  [][\A p \in Passes :
       /\ MintAttemptConfirmed(p) =>
            /\ cached(file'[1], toLowerAddr(buyerOf(p)))
            /\ toLowerAddr(buyerOf(p)) \notin DOMAIN file'[1].mintFailures
       /\ MintAttemptFailed(p) =>
            /\ toLowerAddr(buyerOf(p)) \in DOMAIN file'[1].mintFailures
            /\ FailureOf(file'[1], toLowerAddr(buyerOf(p))) = now
            /\ cached(file'[1], toLowerAddr(buyerOf(p)))
                 => cached(state, toLowerAddr(buyerOf(p)))]_vars

\* the pass p went on after this step: it waits further on in its range, or
\* it finished its range and wrote the target as cursor
WentOn(p) ==
  \/ \E q \in BagToSet(pass') :
       /\ Arrived(q)
       /\ q.target = p.target
       /\ q.from > p.from \/ (q.from = p.from /\ q.pos > p.pos)
  \/ /\ Left(p)
     /\ phase' = "listening"
     /\ state'.lastProcessedSwapBlock = p.target
     /\ file'[1].lastProcessedSwapBlock = p.target

\* C19: an insert into the analytic index that rejects does not abort the
\* pass: the volume folded for the event stays in the ledger, the pass goes
\* on with the remaining events and the cursor; and when the insert that
\* rejects is the one made after a confirmed mint, the wallet is recorded
\* as minted and no failure marker is set.
C19_IndexFailureHarmless ==
  [][\A p \in Passes :
       /\ (p.pc = "insertSwap" /\ InsertSwapFail(p)) =>
            /\ WentOn(p)
            /\ \A w \in Wallets : CumOf(state', w) >= CumOf(state, w)
       /\ (p.pc = "insertMint" /\ InsertMintFail(p)) =>
            /\ cached(file'[1], toLowerAddr(buyerOf(p)))
            /\ toLowerAddr(buyerOf(p)) \notin DOMAIN file'[1].mintFailures
            /\ WentOn(p) ]_vars



\* the three configuration errors of the claim, read off the environment
PoolMismatch ==
  <<toLowerAddr(env.POOL_TOKEN0), toLowerAddr(env.POOL_TOKEN1)>> # <<onchainToken0, onchainToken1>>
TokenNotInPool == toLowerAddr(env.TOKEN_ADDRESS) \notin {onchainToken0, onchainToken1}
SaltMissing == cohortEnabled /\ env.COHORT_SALT = ""
Misconfigured == PoolMismatch \/ TokenNotInPool \/ SaltMissing

\* C22: a controller whose environment has a configuration error (the
\* pool's token0/token1 are not the configured pair, the tracked token is
\* neither pool asset, or gating is on with an empty salt) never gets past
\* startup: the state file is never written, no pass exists (so no log is
\* fetched and no hasMinted or mint call is made), the ledger is untouched,
\* and the only thing a start does is exit.
C22_ConfigErrorFatal ==
  /\ [](Misconfigured =>
          /\ phase \in {"down", "exited"}
          /\ file = NoFile
          /\ state = EmptyState
          /\ pass = NoPass
          /\ nft = NftInit)
  /\ [][(Misconfigured /\ phase = "down" /\ phase' # "down") => phase' = "exited"]_vars

\* started without a salt while gating is on, pool and token configured
\* correctly: the process has exited and nothing was written
C22_Witness ==
  /\ phase = "exited"
  /\ cohortEnabled /\ env.COHORT_SALT = ""
  /\ toLowerAddr(env.POOL_TOKEN0) = onchainToken0
  /\ toLowerAddr(env.POOL_TOKEN1) = onchainToken1
  /\ tokenIs1
  /\ file = NoFile


\* C23: when the websocket closes or fails the process terminates at that
\* moment: it is down, no pass is in flight and the state file is what it
\* was (the last chunk boundary written); and as long as the websocket of
\* a process is closed that process is down, so no pass is started.
C23_ChannelLossTerminates ==
  /\ [][(WsClose \/ WsError) =>
          /\ phase' = "down"
          /\ pass' = NoPass
          /\ file' = file]_vars
  /\ [](ws = "closed" => phase = "down" /\ pass = NoPass)


\* heads and persisted cursors around the initialisation window
LatestSamples == {0, 1, initWindow - 1, initWindow, initWindow + 1, initWindow + MaxHeight}
CursorSamples == {0 - 1, 0, 1, MaxHeight, initWindow + 1}

\* C24: a start on a state file whose swap cursor is c > 0 keeps c and the
\* file's cumulative volumes, minted cache and failure timestamps, and the
\* startup pass asks for logs from block c + 1; a cursor is replaced only
\* when it is absent or <= 0, and then by max(0, latest - 2000).
C24_ResumeFromCursor ==
  /\ [][(phase = "down" /\ phase' = "startup") =>
          LET old == loadState(file)
              c == old.lastProcessedSwapBlock
          IN /\ c > 0 => state'.lastProcessedSwapBlock = c
             /\ c <= 0 => state'.lastProcessedSwapBlock = Max(0, height - 2000)
             /\ state'.cumulativeBuys = old.cumulativeBuys
             /\ state'.mintedCache = old.mintedCache
             /\ state'.mintFailures = old.mintFailures
             /\ file' = saveState(state')]_vars
  /\ [][\A p \in Passes :
          (phase = "startup" /\ p.pc = "getBlock" /\ GetBlockNumber(p)) =>
            \A q \in BagToSet(pass') :
              q.pc = "query" => q.from = file[1].lastProcessedSwapBlock + 1]_vars
  /\ [](\A latest \in LatestSamples, c \in CursorSamples :
          initCursor(c, latest) = IF c > 0 THEN c ELSE Max(0, latest - 2000))

\* restarted after a crash on a file with a positive cursor and recorded
\* volumes, the startup pass is asking for the block after the cursor
C24_Witness ==
  /\ crashes > 0
  /\ phase = "startup"
  /\ state.lastProcessedSwapBlock > 0
  /\ state.cumulativeBuys # EmptyMap
  /\ \E p \in Passes : p.pc = "query" /\ p.from = state.lastProcessedSwapBlock + 1


\* no two rows of the table have the same key
UniqueKeys(table) ==
  \A i, j \in DOMAIN table : table[i].key = table[j].key => i = j

\* the three tables of the index
Tables(db) == <<db.swaps, db.transfers, db.mints>>

\* the pass p completes an insert whose row key is already in its table
InsertsAgain(p) ==
  \/ p.pc = "insertSwap" /\ swapRow(p.logs[p.pos]).key \in keysOf(sqliteDb.swaps)
       /\ InsertSwapOk(p)
  \/ p.pc = "transfers.insert" /\ transferRow(p.logs[p.pos]).key \in keysOf(sqliteDb.transfers)
       /\ InsertTransferOk(p)
  \/ p.pc = "insertMint" /\ mintRow(nft, toLowerAddr(buyerOf(p))).key \in keysOf(sqliteDb.mints)
       /\ InsertMintOk(p)

\* C25: an insert of a swap, transfer or mint row whose (transaction, log
\* position) key is in the table leaves all three tables as they were; so
\* however often a block range is replayed, each table holds one row per
\* key, the row of that log, exactly as after one replay.
C25_InsertIdempotent ==
  /\ [][\A p \in Passes : InsertsAgain(p) => Tables(sqliteDb') = Tables(sqliteDb)]_vars
  /\ [](/\ UniqueKeys(sqliteDb.swaps)
        /\ UniqueKeys(sqliteDb.transfers)
        /\ UniqueKeys(sqliteDb.mints)
        /\ \A i \in DOMAIN sqliteDb.swaps :
             \E k \in EventKeys : sqliteDb.swaps[i] = swapRow(k)
        /\ \A i \in DOMAIN sqliteDb.transfers :
             \E k \in TransferKeys : sqliteDb.transfers[i] = transferRow(k))

\* a swap row and a transfer row were each inserted a second time, after a
\* restart replayed their block range
C25_Witness ==
  /\ \E k \in sqliteDb.again : k[1] = "swap"
  /\ \E k \in sqliteDb.again : k[1] = "transfer"
  /\ crashes > 0


\* C26: a mint(to) that succeeds was called by a holder of MINTER_ROLE with
\* to non-zero and hasMinted[to] false; it sets hasMinted[to], returns the
\* next token id as it was and leaves it one higher; a mint that reverts
\* changes nothing; no call ever clears a hasMinted flag; the ids returned
\* are 1, 2, 3, ... in order.
C26_MintContract ==
  /\ [][probe'.fn = "mint" =>
          LET c == probe.c
              d == probe'.c
              to == probe'.to
          IN IF probe'.ok
             THEN /\ probe'.caller \in c.minters
                  /\ to # ZeroAddress
                  /\ ~c.nft.hasMinted[to]
                  /\ d.nft.hasMinted[to]
                  /\ probe'.ret = c.nft.nextTokenId
                  /\ d.nft.nextTokenId = c.nft.nextTokenId + 1
                  /\ \A w \in Wallets \ {to} : d.nft.hasMinted[w] = c.nft.hasMinted[w]
             ELSE d = c]_vars
  /\ [][\A w \in Wallets : probe.c.nft.hasMinted[w] => probe'.c.nft.hasMinted[w]]_vars
  /\ [](/\ probe.issued = [i \in 1..Len(probe.issued) |-> i]
        /\ probe.c.nft.nextTokenId = Len(probe.issued) + 1)

\* two mints have succeeded, the second by a minter appointed after
\* construction, once the first minter was revoked
C26_Witness ==
  /\ probe.fn = "mint" /\ probe.ok
  /\ probe.issued = <<1, 2>>
  /\ probe.ret = 2
  /\ probe.caller # JstvipMinter
  /\ JstvipMinter \notin probe.c.minters


\* what the accounts other than the payer and the pool hold and allow
Bystanders(c) ==
  [a \in ExecAccounts \ {ExecPayer, ExecPool} |->
     <<c.bal0[a], c.bal1[a], c.allow0[a], c.allow1[a]>>]

\* C27: an executeSwap that succeeds was called by the bound payer and its
\* Swap event names the payer as recipient; it moves the positive delta
\* from the payer to the pool, the negative one from the pool to the payer,
\* and nothing of anybody else; a callback not called by the pool reverts;
\* a reverted call changes nothing; so every Swap event made through the
\* executor has the payer as recipient.
C27_ExecutorBoundToPayer ==
  /\ [][(probe'.fn = "executeSwap" /\ probe'.ok) =>
          LET c == probe.c
              d == probe'.c
              e == d.events[Len(d.events)]
              pay0 == IF e.amount0 > 0 THEN e.amount0 ELSE 0
              pay1 == IF e.amount1 > 0 THEN e.amount1 ELSE 0
          IN /\ probe'.caller = ExecPayer
             /\ Len(d.events) = Len(c.events) + 1
             /\ e.recipient = ExecPayer
             /\ d.bal0[ExecPayer] = c.bal0[ExecPayer] - e.amount0
             /\ d.bal1[ExecPayer] = c.bal1[ExecPayer] - e.amount1
             /\ d.bal0[ExecPool] = c.bal0[ExecPool] + e.amount0
             /\ d.bal1[ExecPool] = c.bal1[ExecPool] + e.amount1
             /\ d.allow0[ExecPayer] = c.allow0[ExecPayer] - pay0
             /\ d.allow1[ExecPayer] = c.allow1[ExecPayer] - pay1
             /\ Bystanders(d) = Bystanders(c)]_vars
  /\ [][probe'.fn = "uniswapV3SwapCallback" => ~probe'.ok]_vars
  /\ [][~probe'.ok => probe'.c = probe.c]_vars
  /\ [](\A i \in DOMAIN probe.c.events : probe.c.events[i].recipient = ExecPayer)

\* the payer bought token1 through the executor and sold some of it back,
\* and one more call was made that reverted
C27_Witness ==
  /\ probe.fn = "executeSwap" /\ probe.ok
  /\ probe.n = 3
  /\ Len(probe.c.events) = 2
  /\ probe.c.events[1].amount1 < 0
  /\ probe.c.events[2].amount0 < 0


\* the sum of all balances of the token c
RECURSIVE SumOver(_, _)
SumOver(balances, S) ==
  IF S = {} THEN 0
  ELSE LET a == CHOOSE x \in S : TRUE
       IN balances[a] + SumOver(balances, S \ {a})

\* C28: the total supply is the initial supply, which the constructor
\* credited to the deployer, and after any sequence of transfer,
\* transferFrom, approve, pause and unpause the balances still sum to it.
C28_SupplyConstant ==
  /\ TokenInit.balances[TokenDeployer] = InitialSupply
  /\ TokenInit.totalSupply = InitialSupply
  /\ probe.c.totalSupply = InitialSupply
  /\ SumOver(probe.c.balances, TokenHolders) = InitialSupply

\* tokens have moved by transfer and by transferFrom, and the token was
\* paused and unpaused on the way
C28_Witness ==
  /\ probe.fn = "transferFrom" /\ probe.ok /\ probe.value > 0
  /\ probe.n = MaxTx
  /\ probe.c.balances["0xbbb"] > 0
  /\ probe.c.balances["0xccc"] > 0
  /\ ~probe.c.paused

\* the balances b after exactly v has moved from `from` to `to`
MovedExactly(b, from, to, v) ==
  LET debited == [b EXCEPT ![from] = @ - v]
  IN [debited EXCEPT ![to] = @ + v]

\* the call that probe' records left balances and allowances as they were
TokenUntouched ==
  /\ probe'.c.balances = probe.c.balances
  /\ probe'.c.allowances = probe.c.allowances

\* a transfer above the sender's balance and a transferFrom above the
\* spender's allowance revert and leave balances and allowances unchanged
OverdrawReverts ==
  /\ (probe'.fn = "transfer" /\ probe'.value > probe.c.balances[probe'.caller]) =>
       ~probe'.ok /\ TokenUntouched
  /\ (probe'.fn = "transferFrom"
        /\ probe'.value > probe.c.allowances[probe'.from][probe'.caller]) =>
       ~probe'.ok /\ TokenUntouched

\* a successful transfer or transferFrom of v moves exactly v
MovesExactly ==
  (probe'.fn \in {"transfer", "transferFrom"} /\ probe'.ok) =>
    probe'.c.balances =
      MovedExactly(probe.c.balances, probe'.from, probe'.to, probe'.value)

\* a successful transfer leaves every allowance alone
TransferKeepsAllowances ==
  (probe'.fn = "transfer" /\ probe'.ok) => probe'.c.allowances = probe.c.allowances

Submits(p) ==
  /\ p.pc = "hasMinted.false"
  /\ HasMintedResumed(p)
  /\ ~belowThreshold(parseBigintSafe(Get(state.cumulativeBuys, toLowerAddr(buyerOf(p)))))

\* C30: the controller never submits mint(w) when the ledger already reports
\* hasMinted(w) = true at the moment of submission: no issuance to w is
\* confirmed between the false answer of the authoritative check and the
\* submission, under every interleaving of notifications and awaited calls.
C30_NoSubmissionAfterIssuance ==
  [][\A p \in Passes : Submits(p) => ~nft.hasMinted[toLowerAddr(buyerOf(p))]]_vars

\* C39: while the token is paused every transfer and transferFrom reverts
\* and leaves all balances unchanged; when it is not paused (again) a
\* transfer within the sender's balance to a holder succeeds; and only the
\* owner pauses or unpauses.
C39_PauseStopsTransfers ==
  [][/\ (probe.c.paused /\ probe'.fn \in {"transfer", "transferFrom"}) =>
          ~probe'.ok /\ probe'.c.balances = probe.c.balances
     /\ (~probe.c.paused /\ probe'.fn = "transfer" /\ probe'.to # ZeroAddress
           /\ probe'.value <= probe.c.balances[probe'.caller]) => probe'.ok
     /\ (probe'.fn \in {"pause", "unpause"} /\ probe'.ok) => probe'.caller = probe.c.owner
     /\ (probe'.c.paused # probe.c.paused) =>
          /\ probe'.fn = (IF probe.c.paused THEN "unpause" ELSE "pause")
          /\ probe'.caller = probe.c.owner]_vars

\* the owner has unpaused the token, which was paused after tokens had
\* moved, at the last transaction allowed
C39_Witness ==
  /\ probe.fn = "unpause" /\ probe.ok
  /\ ~probe.c.paused
  /\ probe.c.balances["0xbbb"] > 0
  /\ probe.n = MaxTx

\* C38: saveState followed by loadState returns the same cursors,
\* cumulative volumes (the decimal strings, digit for digit), minted cache
\* and failure timestamps; a missing or unparseable state file loads as zero
\* cursors and empty maps; and an old lastProcessedBlock member becomes the
\* transfer cursor, when the file has none, and never the swap cursor.
C38_StateRoundTrip ==
  /\ probe.fn = "saveLoad" => probe.loaded = probe.mem
  /\ (probe.fn = "load" /\ (~probe.disk.exists \/ ~probe.disk.json)) =>
       probe.loaded = DefaultState
  /\ (probe.fn = "load" /\ probe.disk.json /\ ~probe.disk.doc.null) =>
       LET old == member(probe.disk.doc, "lastProcessedBlock")
           transfer == member(probe.disk.doc, "lastProcessedTransferBlock")
           swap == member(probe.disk.doc, "lastProcessedSwapBlock")
       IN /\ (typeof(old) = "number" /\ typeof(transfer) # "number") =>
               probe.loaded.lastProcessedTransferBlock = old
          /\ probe.loaded.lastProcessedSwapBlock =
               (IF typeof(swap) = "number" THEN swap ELSE JsNumber(0))

\* a state with a volume beyond 2^53, a cached wallet and a failure
\* timestamp went through the file
C38_Witness ==
  /\ probe.fn = "saveLoad"
  /\ probe.n = MaxEdits
  /\ \E w \in StateWallets :
       /\ w \in DOMAIN probe.loaded.cumulativeBuys.m
       /\ Len(probe.loaded.cumulativeBuys.m[w].s) = 16
       /\ w \in DOMAIN probe.loaded.mintedCache.m
       /\ w \in DOMAIN probe.loaded.mintFailures.m

\* the quantities of the purchases of w, each counted as often as the copy
\* s of the state had it added
RECURSIVE FoldedSum(_, _, _)
FoldedSum(s, w, k) ==
  IF k > Len(ChainLog) THEN 0
  ELSE (IF toLowerAddr(ChainLog[k].recipient) = w THEN s.folds[k] * Bought(k) ELSE 0)
       + FoldedSum(s, w, k + 1)

\* every addition to a wallet's volume was the quantity of one purchase
VolumeIsFolded(s) == \A w \in Wallets : CumOf(s, w) = FoldedSum(s, w, 1)

\* no volume of s is smaller or missing in s2
VolumeKept(s, s2) ==
  \A w \in DOMAIN s.cumulativeBuys :
    w \in DOMAIN s2.cumulativeBuys /\ CumOf(s2, w) >= CumOf(s, w)

\* the logs the pass p works on in its next step, the position it has
\* evaluated them to, and the position it will have evaluated them to
LogsOf(p) == IF p.pc = "query" THEN queryFilter(p.from, p.end) ELSE p.logs
DoneOf(p) == IF p.pc = "query" THEN 0 ELSE p.pos
StopOf(p) ==
  LET same == {q \in BagToSet(pass') :
                 q.logs = LogsOf(p) /\ q.from = p.from /\ q.pc \notin {"getBlock", "query"}}
  IN IF same = {} THEN Len(LogsOf(p)) ELSE (CHOOSE q \in same : TRUE).pos

\* the pass p evaluates logs in this step
Evaluates(p) ==
  \/ p.pc = "query" /\ QueryOk(p)
  \/ p.pc \notin {"getBlock", "query"} /\ pass' # pass /\ phase' # "down"

\* C33: every purchase a pass evaluates is added to the recipient's
\* cumulative volume, by the purchased quantity, whether or not the wallet is
\* in the cohort, in cooldown or minted and whether or not swap minting is
\* enabled; a wallet's volume never decreases and its entry is never
\* deleted, in the running process and in the state file.
C33_VolumeAlwaysCounted ==
  /\ [](phase # "down" => VolumeIsFolded(state))
  /\ [](file # NoFile => VolumeIsFolded(file[1]))
  /\ [][\A p \in Passes :
          Evaluates(p) =>
            \A i \in (DoneOf(p) + 1) .. StopOf(p) :
              LET k == LogsOf(p)[i]
              IN Bought(k) > 0 =>
                   /\ state'.folds[k] = state.folds[k] + 1
                   /\ CumOf(state', toLowerAddr(ChainLog[k].recipient))
                        >= CumOf(state, toLowerAddr(ChainLog[k].recipient)) + Bought(k)]_vars
  /\ [][(phase # "down" /\ phase' # "down") => VolumeKept(state, state')]_vars
  /\ [][file # NoFile => (file' # NoFile /\ VolumeKept(file[1], file'[1]))]_vars

\* with swap minting disabled 0xAAA and 0xBBB have bought past the
\* threshold, the state file says so, and nobody was minted
C33_Witness ==
  /\ ~swapMintEnabled
  /\ file # NoFile
  /\ CumOf(file[1], "0xaaa") >= threshold
  /\ CumOf(file[1], "0xbbb") >= threshold
  /\ \A w \in Wallets : ~nft.hasMinted[w]

\* C34: in the state file no wallet has both mintedCache = true and a
\* failure timestamp: whenever a wallet becomes known as minted, also by the
\* authoritative check finding an issuance that was recorded as failed, its
\* failure marker is cleared.
C34_MintedHasNoFailure ==
  file # NoFile =>
    \A w \in Wallets : ~(cached(file[1], w) /\ w \in DOMAIN file[1].mintFailures)

\* C35: starting from an empty state, whenever mintedCache[w] is true, in
\* the running process or in the state file, the ledger's hasMinted(w) is
\* true; for the swap-driven gate and the legacy gate.
C35_CacheImpliesMinted ==
  \A w \in Wallets :
    /\ (phase # "down" /\ cached(state, w)) => nft.hasMinted[w]
    /\ (file # NoFile /\ cached(file[1], w)) => nft.hasMinted[w]

\* with the legacy gate enabled the state file has two wallets in the cache
C35_Witness ==
  /\ file # NoFile
  /\ Cardinality({w \in Wallets : cached(file[1], w)}) >= 2
  /\ legacyMintEnabled

\* C36: each row of controller_mints carries the recipient, the identifier
\* the ledger issued to that recipient in that issuance and the log position
\* of the issuance event, and no two rows carry the same identifier.
C36_MintRecordIdentifies ==
  /\ \A i \in DOMAIN sqliteDb.mints :
       LET row == sqliteDb.mints[i]
           issued == receiptLogs(nft, row.to_address)[1]
       IN /\ row.to_address \in Wallets /\ nft.hasMinted[row.to_address]
          /\ row.token_id = DecStr(issued.tokenId)
          /\ row.key[3] = issued.logIndex
  /\ \A i, j \in DOMAIN sqliteDb.mints :
       i # j => sqliteDb.mints[i].token_id # sqliteDb.mints[j].token_id

\* C37: for every range and every pattern of provider failures other than
\* the rate limit the range fetcher terminates, returning or throwing: a
\* failure on a multi-block range strictly shrinks the range, a failure on a
\* single-block range ends the call after at most one retry.
C37_FetcherTerminates ==
  /\ <>(probe.status # "calling")
  /\ [][probe'.last = "internal error" =>
          IF probe.start < probe.end
          THEN /\ probe'.status = "calling"
               /\ probe'.start = probe.start
               /\ probe.start <= probe'.end /\ probe'.end < probe.end
          ELSE \/ probe'.status = "thrown"
               \/ ~probe.retrying /\ probe'.retrying /\ probe'.status = "calling"]_vars
  /\ [](probe.status = "calling" => probe.start <= probe.end)

\* the balance-based fetcher was asked for four blocks or more, was cut
\* down to one block, asked for it once more and threw
C37_Witness ==
  /\ probe.kind = "balance.queryTransferLogs"
  /\ probe.toBlock - probe.fromBlock >= 3
  /\ probe.start = probe.end
  /\ probe.retrying
  /\ probe.status = "thrown"
  /\ probe.limited = 0

C32_EligibleEventuallyMinted ==
  \A w \in Wallets \ {ZeroAddress} :
    (/\ isInEligibleCohort(w, cohortEnabled, cohortEligiblePercent, cohortSalt)
     /\ parseBigintSafe(Get(state.cumulativeBuys, w)) >= threshold)
      ~> nft.hasMinted[w]

\* C21: when queryFilter rejects a single-block range with an error that is
\* not the rate limit, the fetcher asks for that block once more: the pass
\* that asked is still in flight, waiting for the same block, and the
\* process goes on; for the swap-log fetcher and the transfer-log fetcher.
C21_SingleBlockRetriedOnce ==
  [][\A p \in Passes :
       (/\ p.from = p.end
        /\ \/ p.pc = "query" /\ QueryFailWith(p, "internal error")
           \/ p.pc = "transfers.query" /\ TransfersQueryFailWith(p, "internal error")) =>
         /\ InFlight' = InFlight
         /\ phase' = phase
         /\ \E q \in BagToSet(pass') : q.from = p.from /\ q.end = p.end]_vars

====
